---------------------------- MODULE Spec2Model ----------------------------
(***************************************************************************)
(* A model of sc-detect: the tokenizer and the token comparison            *)
(* primitives (js/tokenizer.ts), the AI-signature heuristic (js/ai.ts) and *)
(* the Watchdog session with its WatchdogHandle field handles              *)
(* (js/watchdog.ts).                                                       *)
(*                                                                         *)
(* Numbers.  JavaScript numbers are modelled as exact rationals <<n, d>>   *)
(* in lowest terms with d > 0, plus the non-finite values the code can     *)
(* produce by dividing by zero: NaN is <<0, 0>>, Infinity <<1, 0>>.        *)
(* Strings are sequences of one-character strings; the em dash and the     *)
(* emoji of the block U+1F600..U+1F64F are the characters "EMDASH" and     *)
(* "EMOJI", a line feed is "\n".                                           *)
(***************************************************************************)
EXTENDS Integers, Sequences, FiniteSets, TLC

\* null / undefined is the empty sequence, a present value x is <<x>>
NULL == <<>>
Some(x) == <<x>>

----------------------------------------------------------------------------
(* JavaScript numbers *)

Abs(x) == IF x < 0 THEN -x ELSE x

RECURSIVE Gcd(_, _)
Gcd(a, b) == IF b = 0 THEN a ELSE Gcd(b, a % b)

NaN == <<0, 0>>

Rat(n, d) ==
    IF d = 0 THEN (IF n = 0 THEN NaN ELSE IF n > 0 THEN <<1, 0>> ELSE <<-1, 0>>)
    ELSE LET g == Gcd(Abs(n), Abs(d))
             s == IF d < 0 THEN -1 ELSE 1
         IN  <<(s * n) \div g, (s * d) \div g>>

Num(i) == <<i, 1>>
Zero == Num(0)
One == Num(1)

IsNaN(a) == a = NaN
IsFinite(a) == a[2] # 0

\* a + b, a - b, a * b, a / b of JavaScript
RAdd(a, b) ==
    IF IsFinite(a) /\ IsFinite(b) THEN Rat(a[1] * b[2] + b[1] * a[2], a[2] * b[2])
    ELSE IF IsNaN(a) \/ IsNaN(b) \/ a # b THEN NaN ELSE a
RNeg(a) == <<-a[1], a[2]>>
RSub(a, b) == RAdd(a, RNeg(b))
RMul(a, b) ==
    IF IsFinite(a) /\ IsFinite(b) THEN Rat(a[1] * b[1], a[2] * b[2])
    ELSE IF IsNaN(a) \/ IsNaN(b) \/ a[1] = 0 \/ b[1] = 0 THEN NaN
    ELSE Rat(a[1] * b[1], 0)
RDiv(a, b) ==
    IF IsFinite(a) /\ IsFinite(b) THEN Rat(a[1] * b[2], a[2] * b[1])
    ELSE IF IsNaN(a) \/ IsNaN(b) \/ (~IsFinite(a) /\ ~IsFinite(b)) THEN NaN
    ELSE IF IsFinite(a) THEN Zero
    ELSE Rat(a[1] * (IF b[1] < 0 THEN -1 ELSE 1), 0)

\* a < b, a > b, a >= b, a <= b of JavaScript: every comparison with NaN is false
RLt(a, b) ==
    /\ ~IsNaN(a)
    /\ ~IsNaN(b)
    /\ IF IsFinite(a) /\ IsFinite(b) THEN a[1] * b[2] < b[1] * a[2]
       ELSE IF ~IsFinite(a) /\ ~IsFinite(b) THEN a[1] < b[1]
       ELSE IF IsFinite(a) THEN b[1] > 0 ELSE a[1] < 0
RGt(a, b) == RLt(b, a)
RLe(a, b) == ~IsNaN(a) /\ ~IsNaN(b) /\ (a = b \/ RLt(a, b))
RGe(a, b) == RLe(b, a)

----------------------------------------------------------------------------
(* JavaScript strings, as sequences of characters *)

Range(s) == {s[i] : i \in 1..Len(s)}

\* s.startsWith(p), s.endsWith(p)
StartsWith(s, p) == Len(p) <= Len(s) /\ SubSeq(s, 1, Len(p)) = p
EndsWith(s, p) == Len(p) <= Len(s) /\ SubSeq(s, Len(s) - Len(p) + 1, Len(s)) = p

\* s.indexOf(p), 1-based; 0 when p does not occur in s
IndexOf(s, p) ==
    LET hits == {i \in 1..(Len(s) - Len(p) + 1) : SubSeq(s, i, i + Len(p) - 1) = p}
    IN  IF hits = {} THEN 0 ELSE CHOOSE i \in hits : \A j \in hits : i <= j

\* s.includes(p)
Includes(s, p) == IndexOf(s, p) # 0

\* s.replace(p, ''): the first occurrence of the string p is removed
RemoveFirst(s, p) ==
    LET i == IndexOf(s, p)
    IN  IF i = 0 THEN s ELSE SubSeq(s, 1, i - 1) \o SubSeq(s, i + Len(p), Len(s))


----------------------------------------------------------------------------
(* The texts of the model: what is pasted, copied and typed *)

TextAbCd == <<"a", "b", " ", "c", "d">>
TextAbCdFg == <<"a", "b", " ", "c", "d", ".", " ", "f", "g">>
TextShort == <<"a", "b">>
TextAi == <<"EMDASH", "EMDASH", "EMDASH", "EMDASH", " ", "f", "g">>
TextBlank == <<" ", " ", " ">>

ModelTexts == {<<>>, TextAbCd, TextAbCdFg, TextShort, TextAi}

----------------------------------------------------------------------------
(* js/tokenizer.ts *)

\* /\s/ for the characters of the model
IsWhitespace(c) == c \in {" ", "\n", "\t", "\r"}

\* a variant of IsPunctuation without the comma
IsPunctuation_noComma(c) == c \in {".", "!", "?", ";", ":", "(", ")"}

\* /[.,!?;:()]/
IsPunctuation(c) == c \in {".", ",", "!", "?", ";", ":", "(", ")"}

commonPrefixes ==
    << <<"u","n">>, <<"r","e">>, <<"i","n">>, <<"i","m">>, <<"d","i","s">>,
       <<"e","n">>, <<"n","o","n">>, <<"n","o","n","-">>, <<"p","r","e">>,
       <<"p","r","e","-">>, <<"m","i","s">>, <<"s","u","b">>,
       <<"i","n","t","e","r">>, <<"f","o","r","e">>, <<"d","e">>,
       <<"t","r","a","n","s">>, <<"s","u","p","e","r">>, <<"s","e","m","i">>,
       <<"a","n","t","i">>, <<"m","i","d">>, <<"u","n","d","e","r">> >>

commonSuffixes ==
    << <<"s">>, <<"e","s">>, <<"e","d">>, <<"i","n","g">>, <<"l","y">>,
       <<"e","r">>, <<"o","r">>, <<"i","o","n">>, <<"t","i","o","n">>,
       <<"a","t","i","o","n">>, <<"i","t","y">>, <<"m","e","n","t">>,
       <<"n","e","s","s">>, <<"f","u","l">>, <<"l","e","s","s">>,
       <<"e","s","t">>, <<"i","v","e">>, <<"y">>, <<"i","z","e">>,
       <<"i","s","e">>, <<"i","f","y">>, <<"e","n">>, <<"s","s","a">>,
       <<"l","l","a">>, <<"a","a">> >>

\* String.prototype.toLowerCase, one character
upperCase ==
    <<"A","B","C","D","E","F","G","H","I","J","K","L","M","N","O","P","Q","R",
      "S","T","U","V","W","X","Y","Z","Aacute","Eacute","Iacute","Oacute",
      "Uacute","Ntilde","Auml","Ouml","Uuml">>
lowerCase ==
    <<"a","b","c","d","e","f","g","h","i","j","k","l","m","n","o","p","q","r",
      "s","t","u","v","w","x","y","z","aacute","eacute","iacute","oacute",
      "uacute","ntilde","auml","ouml","uuml">>
ToLowerChar(c) ==
    IF \E i \in 1..Len(upperCase) : upperCase[i] = c
    THEN lowerCase[CHOOSE i \in 1..Len(upperCase) : upperCase[i] = c]
    ELSE c
ToLowerCase(s) == [i \in 1..Len(s) |-> ToLowerChar(s[i])]

\* accentsMap of normalizeToken
accentsMap(c) ==
    CASE c = "aacute" -> "a"
      [] c = "eacute" -> "e"
      [] c = "iacute" -> "i"
      [] c = "oacute" -> "o"
      [] c = "uacute" -> "u"
      [] c = "ntilde" -> "n"
      [] c = "auml" -> "a"
      [] c = "ouml" -> "o"
      [] c = "uuml" -> "u"
      [] OTHER -> c

\* the first entry of list that token starts (ends) with is removed by
\* token.replace(entry, ''), which removes the FIRST occurrence of the entry
stripFirstMatch(token, list, Matches(_, _)) ==
    LET hits == {i \in 1..Len(list) : Matches(token, list[i])}
    IN  IF hits = {} THEN token
        ELSE RemoveFirst(token, list[CHOOSE i \in hits : \A j \in hits : i <= j])

normalizeToken(token) ==
    LET t1 == stripFirstMatch(token, commonPrefixes, StartsWith)
        t2 == stripFirstMatch(t1, commonSuffixes, EndsWith)
        t3 == ToLowerCase(t2)
    IN  [i \in 1..Len(t3) |-> accentsMap(t3[i])]

\* the segmentation loop of simpleTokenizer: tokens so far, currentToken, rest
RECURSIVE segment(_, _, _)
segment(tokens, currentToken, rest) ==
    IF rest = <<>>
    THEN IF currentToken # <<>> THEN Append(tokens, currentToken) ELSE tokens
    ELSE LET char == Head(rest)
             flushed == IF currentToken # <<>> THEN Append(tokens, currentToken)
                        ELSE tokens
         IN  IF IsWhitespace(char) THEN segment(flushed, <<>>, Tail(rest))
             ELSE IF IsPunctuation(char)
                  THEN segment(Append(flushed, <<char>>), <<>>, Tail(rest))
             ELSE segment(tokens, Append(currentToken, char), Tail(rest))

\* simpleTokenizer for an input that is not in its cache
tokenizeUncached(input) ==
    LET raw == segment(<<>>, <<>>, input)
        normalized == [i \in 1..Len(raw) |-> normalizeToken(raw[i])]
    IN  SelectSeq(normalized, LAMBDA t : Len(t) > 0)

\* the tokens of the texts of the model; @@ has the table computed once
tokenTable == [input \in ModelTexts |-> tokenizeUncached(input)] @@ <<>>

simpleTokenizer(input) ==
    IF input \in ModelTexts THEN tokenTable[input] ELSE tokenizeUncached(input)

\* "constructor": a property every object literal inherits from Object.prototype
TextConstructor == <<"c", "o", "n", "s", "t", "r", "u", "c", "t", "o", "r">>
ObjectPrototypeKeys == {TextConstructor}

\* obj[key] of an object literal with the own properties own: the own property,
\* else the member inherited from Object.prototype, else undefined (NULL)
Lookup(own, key) ==
    IF own[key] # NULL THEN own[key]
    ELSE IF key \in ObjectPrototypeKeys THEN Some([function |-> "Object"])
    ELSE NULL

\* the timeout of the cache entries, in milliseconds
CACHE_TIMEOUT == 60000

\* the id setTimeout returns: one that no pending timer has
NewTimerId(tk) ==
    CHOOSE id \in 1..(Cardinality(tk.timers) + 1) : \A t \in tk.timers : t.id # id

\* clearTimeout(handle): the timer with that id is cancelled; anything else is ignored
clearTimeout(timers, timeoutHandle) ==
    IF timeoutHandle # NULL /\ "id" \in DOMAIN timeoutHandle[1]
    THEN {t \in timers : t.id # timeoutHandle[1].id}
    ELSE timers

\* a variant of simpleTokenizerCall that does not cancel the timer on a cache hit
simpleTokenizerCall_keepsTimer(tk, input, t) ==
    LET id == NewTimerId(tk)
        timer == [id |-> id, key |-> input, due |-> t + CACHE_TIMEOUT]
        cached == Lookup(tk.cache, input)
        tokens == [array |-> tokenizeUncached(input)]
    IN  IF cached # NULL
        THEN [tokenizer |-> [tk EXCEPT !.timeouts[input] = Some([id |-> id]),
                                       !.timers = @ \cup {timer}],
              result |-> cached[1]]
        ELSE [tokenizer |-> [tk EXCEPT !.cache[input] = Some(tokens),
                                       !.timeouts[input] = Some([id |-> id]),
                                       !.timers = @ \cup {timer}],
              result |-> tokens]

\* simpleTokenizer(input) at the time t with its cache: the module state after the
\* call and the value returned
simpleTokenizerCall(tk, input, t) ==
    LET cached == Lookup(tk.cache, input)
        tokens == [array |-> tokenizeUncached(input)]
    IN  IF cached # NULL
        THEN LET cleared == clearTimeout(tk.timers, Lookup(tk.timeouts, input))
                 id == NewTimerId([tk EXCEPT !.timers = cleared])
             IN  [tokenizer |->
                     [tk EXCEPT !.timeouts[input] = Some([id |-> id]),
                                !.timers = cleared \cup
                                    {[id |-> id, key |-> input, due |-> t + CACHE_TIMEOUT]}],
                  result |-> cached[1]]
        ELSE LET id == NewTimerId(tk)
             IN  [tokenizer |->
                     [tk EXCEPT !.cache[input] = Some(tokens),
                                !.timeouts[input] = Some([id |-> id]),
                                !.timers = @ \cup
                                    {[id |-> id, key |-> input, due |-> t + CACHE_TIMEOUT]}],
                  result |-> tokens]

\* the callback of a timer: delete SIMPLE_TOKENIZER_CACHE[input] and
\* SIMPLE_TOKENIZER_CACHE_TIMEOUTS[input]
timerCallback(tk, timer) ==
    [tk EXCEPT !.cache[timer.key] = NULL,
               !.timeouts[timer.key] = NULL,
               !.timers = @ \ {timer}]

tokenSimilarityCompare(tokensA, tokensB) ==
    LET setA == Range(tokensA)
        setB == Range(tokensB)
    IN  RDiv(Num(Cardinality(setA \cap setB)), Num(Cardinality(setA \cup setB)))

tokenContainmentCompare(tokensContainer, tokensContained) ==
    LET setContainer == Range(tokensContainer)
        setContained == Range(tokensContained)
    IN  RDiv(Num(Cardinality(setContained \cap setContainer)),
             Num(Cardinality(setContained)))

\* tokens[idx] of a JavaScript array indexed from 0; out of range it is undefined,
\* here the empty token, which simpleTokenizer never puts in an array
At(tokens, idx) == IF idx >= 0 /\ idx < Len(tokens) THEN tokens[idx + 1] ELSE <<>>

\* a sum accumulated by "total += x" over the values of a loop, from 0
RECURSIVE SumSeq(_)
SumSeq(values) == IF values = <<>> THEN Zero ELSE RAdd(Head(values), SumSeq(Tail(values)))

\* the running maximum kept by "if (x > maxSoFar) maxSoFar = x" over the values
RECURSIVE MaxSeq(_, _)
MaxSeq(values, maxSoFar) ==
    IF values = <<>> THEN maxSoFar
    ELSE MaxSeq(Tail(values), IF RGt(Head(values), maxSoFar) THEN Head(values) ELSE maxSoFar)

Upto(lo, hi) == [i \in 1..(hi - lo + 1) |-> lo + i - 1]

\* a variant of tokenIncludesScore that skips the first token of tokensContained
tokenIncludesScore_fromSecond(tokensContainer, tokensContained, minimum_relevant) ==
    LET n == Len(tokensContained)
        scoreAt(i, j) ==
            LET added == [x \in 1..n |-> RSub(One, RDiv(Num(Abs(x - 1 - i)), Num(n)))]
            IN  RDiv(SumSeq([x \in 1..n |->
                        IF At(tokensContainer, j + x - 1 - i) = At(tokensContained, x - 1)
                        THEN added[x] ELSE Zero]),
                     SumSeq(added))
        thisTokenMax(i) ==
            LET js == SelectSeq(Upto(0, Len(tokensContainer) - 1),
                                LAMBDA j : At(tokensContainer, j) = At(tokensContained, i))
            IN  MaxSeq([m \in 1..Len(js) |-> scoreAt(i, js[m])], Zero)
        finalScore == RDiv(SumSeq([x \in 1..(n - 1) |-> thisTokenMax(x)]), Num(n))
    IN  IF RGe(finalScore, minimum_relevant) THEN finalScore ELSE Zero

\* the loop variables i, j of the code count from 0, k from -i to length - i - 1:
\* the x-th value of k is x - 1 - i
tokenIncludesScore(tokensContainer, tokensContained, minimum_relevant) ==
    LET n == Len(tokensContained)
        potentialScoreAdded(k) == RSub(One, RDiv(Num(Abs(k)), Num(n)))
        scoreAt(i, j) ==
            LET added == [x \in 1..n |-> potentialScoreAdded(x - 1 - i)]
                matchMax == SumSeq(added)
                matchLength ==
                    SumSeq([x \in 1..n |->
                        IF At(tokensContainer, j + x - 1 - i) = At(tokensContained, x - 1)
                        THEN added[x] ELSE Zero])
            IN  RDiv(matchLength, matchMax)
        thisTokenMax(i) ==
            LET js == SelectSeq(Upto(0, Len(tokensContainer) - 1),
                                LAMBDA j : At(tokensContainer, j) = At(tokensContained, i))
            IN  MaxSeq([m \in 1..Len(js) |-> scoreAt(i, js[m])], Zero)
        score == SumSeq([x \in 1..n |-> thisTokenMax(x - 1)])
        finalScore == RDiv(score, Num(n))
    IN  IF RGe(finalScore, minimum_relevant) THEN finalScore ELSE Zero

----------------------------------------------------------------------------
(* js/ai.ts *)

\* the number of matches of a global regular expression for the literal string p:
\* the occurrences of p in s, found left to right without overlap
RECURSIVE CountOccurrences(_, _)
CountOccurrences(s, p) ==
    LET i == IndexOf(s, p)
    IN  IF i = 0 \/ p = <<>> THEN 0
        ELSE 1 + CountOccurrences(SubSeq(s, i + Len(p), Len(s)), p)

IsDigit(c) == c \in {"0", "1", "2", "3", "4", "5", "6", "7", "8", "9"}

\* \w of a regular expression without the u flag
IsWordChar(c) ==
    \/ IsDigit(c)
    \/ c = "_"
    \/ \E i \in 1..26 : c = upperCase[i] \/ c = lowerCase[i]

\* matches of /\b\d+\./g: a maximal run of digits that starts at a word boundary
\* and is followed by a full stop
numerationCount(text) ==
    Cardinality({i \in 1..Len(text) :
        /\ IsDigit(text[i])
        /\ (i = 1 \/ ~IsWordChar(text[i - 1]))
        /\ \E j \in i..Len(text) :
              /\ \A m \in i..j : IsDigit(text[m])
              /\ j < Len(text)
              /\ text[j + 1] = "."})

aiPhrases ==
    << <<"a","s"," ","a","n"," ","a","i"," ","l","a","n","g","u","a","g","e"," ",
         "m","o","d","e","l">>,
       <<"i"," ","a","m"," ","a","n"," ","a","i">>,
       <<"i"," ","a","m"," ","a","n"," ","a","r","t","i","f","i","c","i","a","l"," ",
         "i","n","t","e","l","l","i","g","e","n","c","e">>,
       <<"a","s"," ","a","n"," ","a","r","t","i","f","i","c","i","a","l"," ",
         "i","n","t","e","l","l","i","g","e","n","c","e">> >>

aiSignatureTotal(text) ==
    LET emDashCount == Cardinality({i \in 1..Len(text) : text[i] = "EMDASH"})
        emojiCount == Cardinality({i \in 1..Len(text) : text[i] = "EMOJI"})
        phraseCount(i) == Num(CountOccurrences(ToLowerCase(text), aiPhrases[i]))
    IN  RAdd(RAdd(RAdd(RMul(Num(emDashCount), Rat(3, 10)),
                       RMul(Num(emojiCount), Rat(5, 10))),
                  SumSeq([i \in 1..Len(aiPhrases) |-> phraseCount(i)])),
             RMul(Num(numerationCount(text)), Rat(5, 100)))

\* a variant of findAISignatures that also answers 1 when the total is the treshold
findAISignatures_atLeast(text, treshold) ==
    IF RGe(aiSignatureTotal(text), treshold) THEN One ELSE Zero

findAISignatures(text, treshold) ==
    IF RGt(aiSignatureTotal(text), treshold) THEN One ELSE Zero

----------------------------------------------------------------------------
(* string helpers of recalculateUnmodifiedPastes *)

\* the length of the separator that /(?<=[.!?])\s+|\n|\r\n/ matches at position i
\* of s, 0 when it matches none there
RECURSIVE whitespaceRun(_, _)
whitespaceRun(s, i) ==
    IF i <= Len(s) /\ IsWhitespace(s[i]) THEN 1 + whitespaceRun(s, i + 1) ELSE 0

separatorAt(s, i) ==
    IF i > 1 /\ s[i - 1] \in {".", "!", "?"} /\ IsWhitespace(s[i])
    THEN whitespaceRun(s, i)
    ELSE IF s[i] = "\n" THEN 1
    ELSE IF s[i] = "\r" /\ i < Len(s) /\ s[i + 1] = "\n" THEN 2
    ELSE 0

\* content.split(/(?<=[.!?])\s+|\n|\r\n/): pieces so far, current piece, position
RECURSIVE splitFrom(_, _, _, _)
splitFrom(s, pieces, piece, i) ==
    IF i > Len(s) THEN Append(pieces, piece)
    ELSE LET n == separatorAt(s, i)
         IN  IF n > 0 THEN splitFrom(s, Append(pieces, piece), <<>>, i + n)
             ELSE splitFrom(s, pieces, Append(piece, s[i]), i + 1)

\* .filter(s => s.trim().length > 0)
splitSentences(content) ==
    SelectSeq(splitFrom(content, <<>>, <<>>, 1),
              LAMBDA piece : \E i \in 1..Len(piece) : ~IsWhitespace(piece[i]))

----------------------------------------------------------------------------
(* js/watchdog.ts: configuration and the records of the state *)

\* text.length: an emoji of the block U+1F600..U+1F64F is two UTF-16 code units
Length(text) == Len(text) + Cardinality({i \in 1..Len(text) : text[i] = "EMOJI"})

DEFAULT_CONFIG ==
    [weights |->
        [reasons |->
            [KEEPS_SWITCHING_TABS_AND_COPY_PASTING |-> Rat(3, 10),
             COPY_RELATES_TO_PASTE |-> Rat(3, 10),
             CONTENT_CONTAINS_AI_SIGNATURES |-> Rat(2, 10),
             UNMODIFIED_PASTES |-> Rat(1, 10)],
         min_copy_event_time_weight |-> Rat(5, 10),
         min_tab_event_time_weight |-> Rat(5, 10)],
     paste_size_threshold |-> 30,
     copy_size_threshold |-> 30,
     settings |->
        [relevant_copy_event_minutes |-> 5,
         relevant_tab_in_out_event_minutes |-> 5]]

\* { ...DEFAULT_CONFIG, ...config }: the keys the caller gives replace the defaults
MergeConfig(partial) ==
    [k \in DOMAIN DEFAULT_CONFIG |->
        IF k \in DOMAIN partial THEN partial[k] ELSE DEFAULT_CONFIG[k]]

\* the state of a WatchdogHandle after its constructor
EmptyState ==
    [COPY_PASTE_CONTRIBUTIONS |-> <<>>,
     COPY_RELATES_TO_PASTE |-> Zero,
     CONTENT_CONTAINS_AI_SIGNATURES |-> Zero,
     KEEPS_SWITCHING_TABS_AND_COPY_PASTING |-> Zero,
     UNMODIFIED_PASTES |-> Zero]

\* the element kinds: what WatchdogHandle reads of its HTMLElement
IsTextControl(el) ==
    \/ el.tagName = "textarea"
    \/ (el.tagName = "input" /\ el.type = "text")
    \/ el.isContentEditable

\* getContentFromHTMLElement: value holds the element's value (a textarea, an
\* input) or its innerText (a contenteditable element)
getContentFromHTMLElement(el, value) ==
    IF el.tagName = "textarea" \/ (el.tagName = "input" /\ el.type = "text")
    THEN value
    ELSE IF el.isContentEditable THEN value
    ELSE <<>>

----------------------------------------------------------------------------
(* WatchdogHandle.handlePastedText: the contribution of one paste *)

\* a variant of timeFactor without the floor of the minimum weight
timeFactor_noFloor(then, now_, minutes, floor) ==
    IF then = NULL THEN Zero
    ELSE IF now_ - then[1] < minutes * 60 * 1000
    THEN RSub(One, RDiv(Num(now_ - then[1]), Num(minutes * 60 * 1000)))
    ELSE Zero

\* a variant of timeFactor without the check of the window
timeFactor_noWindow(then, now_, minutes, floor) ==
    IF then = NULL THEN Zero
    ELSE IF RLt(RSub(One, RDiv(Num(now_ - then[1]), Num(minutes * 60 * 1000))), floor)
    THEN floor
    ELSE RSub(One, RDiv(Num(now_ - then[1]), Num(minutes * 60 * 1000)))

\* the time factor of handlePastedText for an event at time then[1], if any
timeFactor(then, now_, minutes, floor) ==
    IF then = NULL THEN Zero
    ELSE LET timeDiff == now_ - then[1]
             window == minutes * 60 * 1000
         IN  IF timeDiff < window
             THEN LET f == RSub(One, RDiv(Num(timeDiff), Num(window)))
                  IN  IF RLt(f, floor) THEN floor ELSE f
             ELSE Zero

pasteSimilarity(text, lastCopied) ==
    tokenSimilarityCompare(simpleTokenizer(text),
                           IF lastCopied # NULL THEN lastCopied[1].tokens ELSE <<>>)

pasteContainment(text, lastCopied) ==
    IF lastCopied # NULL /\ Len(lastCopied[1].tokens) # 0
    THEN tokenContainmentCompare(simpleTokenizer(text), lastCopied[1].tokens)
    ELSE Zero

\* a variant of IsDiscardedPaste that discards nothing
IsDiscardedPaste_never(text, lastCopied) == RGt(pasteSimilarity(text, lastCopied), One)

\* similarities too high are ignored
IsDiscardedPaste(text, lastCopied) == RGt(pasteSimilarity(text, lastCopied), Rat(9, 10))

\* a variant of pasteContribution whose paste score is the average of the three
\* factors
pasteContribution_average(text, lastCopied, active, cfg, now_) ==
    LET containment == pasteContainment(text, lastCopied)
        foundRelatedCopyFactor ==
            timeFactor(IF lastCopied # NULL THEN Some(lastCopied[1].timestamp) ELSE NULL, now_,
                       cfg.settings.relevant_copy_event_minutes,
                       cfg.weights.min_copy_event_time_weight)
        switchedTabsRecentlyFactor ==
            timeFactor(IF active # NULL THEN Some(active[1].focused_in) ELSE NULL, now_,
                       cfg.settings.relevant_tab_in_out_event_minutes,
                       cfg.weights.min_tab_event_time_weight)
        cheatingPasteScore ==
            RDiv(RAdd(RAdd(containment, foundRelatedCopyFactor), switchedTabsRecentlyFactor),
                 Num(3))
        aiScore == findAISignatures(text, One)
    IN  [pasteScore |-> cheatingPasteScore,
         score |-> IF RGe(aiScore, cheatingPasteScore)
                   THEN RMul(cheatingPasteScore, aiScore) ELSE cheatingPasteScore,
         aiScore |-> aiScore,
         timestamp |-> now_,
         similarity |-> pasteSimilarity(text, lastCopied),
         containment |-> containment,
         copyFactor |-> foundRelatedCopyFactor,
         tabSwitchFactor |-> switchedTabsRecentlyFactor,
         content |-> text]

\* a variant of pasteContribution whose score is the AI score when that is the
\* higher one
pasteContribution_aiOverrides(text, lastCopied, active, cfg, now_) ==
    LET containment == pasteContainment(text, lastCopied)
        foundRelatedCopyFactor ==
            timeFactor(IF lastCopied # NULL THEN Some(lastCopied[1].timestamp) ELSE NULL, now_,
                       cfg.settings.relevant_copy_event_minutes,
                       cfg.weights.min_copy_event_time_weight)
        switchedTabsRecentlyFactor ==
            timeFactor(IF active # NULL THEN Some(active[1].focused_in) ELSE NULL, now_,
                       cfg.settings.relevant_tab_in_out_event_minutes,
                       cfg.weights.min_tab_event_time_weight)
        cheatingPasteScore ==
            RMul(RMul(containment, foundRelatedCopyFactor), switchedTabsRecentlyFactor)
        aiScore == findAISignatures(text, One)
    IN  [pasteScore |-> cheatingPasteScore,
         score |-> IF RGe(aiScore, cheatingPasteScore) THEN aiScore ELSE cheatingPasteScore,
         aiScore |-> aiScore,
         timestamp |-> now_,
         similarity |-> pasteSimilarity(text, lastCopied),
         containment |-> containment,
         copyFactor |-> foundRelatedCopyFactor,
         tabSwitchFactor |-> switchedTabsRecentlyFactor,
         content |-> text]

\* a variant of pasteContribution whose score is always multiplied by the AI score
pasteContribution_alwaysMultiplies(text, lastCopied, active, cfg, now_) ==
    LET containment == pasteContainment(text, lastCopied)
        foundRelatedCopyFactor ==
            timeFactor(IF lastCopied # NULL THEN Some(lastCopied[1].timestamp) ELSE NULL, now_,
                       cfg.settings.relevant_copy_event_minutes,
                       cfg.weights.min_copy_event_time_weight)
        switchedTabsRecentlyFactor ==
            timeFactor(IF active # NULL THEN Some(active[1].focused_in) ELSE NULL, now_,
                       cfg.settings.relevant_tab_in_out_event_minutes,
                       cfg.weights.min_tab_event_time_weight)
        cheatingPasteScore ==
            RMul(RMul(containment, foundRelatedCopyFactor), switchedTabsRecentlyFactor)
        aiScore == findAISignatures(text, One)
    IN  [pasteScore |-> cheatingPasteScore,
         score |-> RMul(cheatingPasteScore, aiScore),
         aiScore |-> aiScore,
         timestamp |-> now_,
         similarity |-> pasteSimilarity(text, lastCopied),
         containment |-> containment,
         copyFactor |-> foundRelatedCopyFactor,
         tabSwitchFactor |-> switchedTabsRecentlyFactor,
         content |-> text]

pasteContribution(text, lastCopied, active, cfg, now_) ==
    LET similarity == pasteSimilarity(text, lastCopied)
        containment == pasteContainment(text, lastCopied)
        foundRelatedCopyFactor ==
            timeFactor(IF lastCopied # NULL THEN Some(lastCopied[1].timestamp) ELSE NULL, now_,
                       cfg.settings.relevant_copy_event_minutes,
                       cfg.weights.min_copy_event_time_weight)
        switchedTabsRecentlyFactor ==
            timeFactor(IF active # NULL THEN Some(active[1].focused_in) ELSE NULL, now_,
                       cfg.settings.relevant_tab_in_out_event_minutes,
                       cfg.weights.min_tab_event_time_weight)
        cheatingPasteScore ==
            RMul(RMul(containment, foundRelatedCopyFactor), switchedTabsRecentlyFactor)
        aiScore == findAISignatures(text, One)
        score == IF RGe(aiScore, cheatingPasteScore)
                 THEN RMul(cheatingPasteScore, aiScore)
                 ELSE cheatingPasteScore
    IN  [pasteScore |-> cheatingPasteScore,
         score |-> score,
         aiScore |-> aiScore,
         timestamp |-> now_,
         similarity |-> similarity,
         containment |-> containment,
         copyFactor |-> foundRelatedCopyFactor,
         tabSwitchFactor |-> switchedTabsRecentlyFactor,
         content |-> text]

----------------------------------------------------------------------------
(* WatchdogHandle: the four recalculations *)

\* tokenIncludesScore(simpleTokenizer(content), simpleTokenizer(pasted), 0.7)
includesScoreOf(content, pasted) ==
    tokenIncludesScore(simpleTokenizer(content), simpleTokenizer(pasted), Rat(7, 10))

\* the same for the texts of the model; @@ has the table computed once
includesScoreTable ==
    [pair \in ModelTexts \X ModelTexts |-> includesScoreOf(pair[1], pair[2])] @@ <<>>

contributionIncludesScore(content, contribution) ==
    IF content \in ModelTexts /\ contribution.content \in ModelTexts
    THEN includesScoreTable[<<content, contribution.content>>]
    ELSE includesScoreOf(content, contribution.content)

\* a variant of recalculateCopyRelatesToPaste that does not divide the total
recalculateCopyRelatesToPaste_total(contributions, content) ==
    IF Len(contributions) = 0 THEN Zero
    ELSE SumSeq([i \in 1..Len(contributions) |->
                    RMul(contributionIncludesScore(content, contributions[i]),
                         contributions[i].score)])

recalculateCopyRelatesToPaste(contributions, content) ==
    IF Len(contributions) = 0 THEN Zero
    ELSE LET total == SumSeq([i \in 1..Len(contributions) |->
                            RMul(contributionIncludesScore(content, contributions[i]),
                                 contributions[i].score)])
         IN  RDiv(total, Num(Len(contributions)))

recalculateAIScore(contributions, content) ==
    IF Len(contributions) = 0 THEN Zero
    ELSE LET total == SumSeq([i \in 1..Len(contributions) |->
                            RMul(contributionIncludesScore(content, contributions[i]),
                                 contributions[i].aiScore)])
         IN  RDiv(total, Num(Len(contributions)))

\* the sentence loop: acc = [working, found] after the sentences of a contribution
RECURSIVE matchSentences(_, _)
matchSentences(sentences, acc) ==
    IF sentences = <<>> THEN acc
    ELSE matchSentences(Tail(sentences),
            IF Includes(acc.working, Head(sentences))
            THEN [working |-> RemoveFirst(acc.working, Head(sentences)),
                  found |-> acc.found + 1]
            ELSE acc)

\* a variant of matchContributions that leaves a whole match in the working copy
RECURSIVE matchContributions_keepsMatch(_, _)
matchContributions_keepsMatch(contributions, acc) ==
    IF contributions = <<>> THEN acc
    ELSE LET content == Head(contributions).content
         IN  matchContributions_keepsMatch(Tail(contributions),
                IF Includes(acc.working, content)
                THEN [working |-> acc.working,
                      unmodified |-> RAdd(acc.unmodified, One)]
                ELSE LET sentences == splitSentences(content)
                         m == matchSentences(sentences,
                                             [working |-> acc.working, found |-> 0])
                     IN  [working |-> m.working,
                          unmodified |-> RAdd(acc.unmodified,
                                              RDiv(Num(m.found), Num(Len(sentences))))])

\* the forEach over the contributions: acc = [working, unmodified]
RECURSIVE matchContributions(_, _)
matchContributions(contributions, acc) ==
    IF contributions = <<>> THEN acc
    ELSE LET content == Head(contributions).content
         IN  matchContributions(Tail(contributions),
                IF Includes(acc.working, content)
                THEN [working |-> RemoveFirst(acc.working, content),
                      unmodified |-> RAdd(acc.unmodified, One)]
                ELSE LET sentences == splitSentences(content)
                         m == matchSentences(sentences,
                                             [working |-> acc.working, found |-> 0])
                     IN  [working |-> m.working,
                          unmodified |-> RAdd(acc.unmodified,
                                              RDiv(Num(m.found), Num(Len(sentences))))])

recalculateUnmodifiedPastes(contributions, content) ==
    LET totalPastes == Len(contributions)
    IN  IF totalPastes = 0 THEN Zero
        ELSE LET m == matchContributions(contributions,
                                         [working |-> content, unmodified |-> Zero])
                 unmodifiedPastesRatio == RDiv(m.unmodified, Num(totalPastes))
                 remainingCharacters == Length(m.working)
                 totalCharacters == Length(content)
                 remainingCharactersRatio ==
                     IF totalCharacters > 0
                     THEN RDiv(Num(remainingCharacters), Num(totalCharacters))
                     ELSE Zero
             IN  RDiv(RAdd(unmodifiedPastesRatio, RSub(One, remainingCharactersRatio)),
                      Num(2))

\* tabFocusHistoryWithCurrent = [...tabFocusWatchInfoHistory, activeTabFocusInfo]:
\* the active interval is its last element also when it is null.  Its element i
\* (from 0), NULL for a null or a missing element.
historyWithCurrentAt(history, active, i) ==
    IF i >= 0 /\ i < Len(history) THEN Some(history[i + 1])
    ELSE IF i = Len(history) THEN active
    ELSE NULL

\* reading current.focused_out of a null current is a TypeError
keepsSwitchingThrows(history, active) == Len(history) + 1 >= 2 /\ active = NULL

\* the pastes of the pair (current, next) at index i, and their best score
pastesInBetween(contributions, history, active, now_, i) ==
    LET current == historyWithCurrentAt(history, active, i)[1]
        next == historyWithCurrentAt(history, active, i + 1)
        endTime == IF next # NULL /\ "focused_out" \in DOMAIN next[1]
                   THEN next[1].focused_out ELSE now_
        startTime == IF "focused_out" \in DOMAIN current
                     THEN current.focused_out ELSE current.focused_in
    IN  SelectSeq(contributions,
                  LAMBDA c : c.timestamp >= startTime /\ c.timestamp <= endTime)

recalculateKeepsSwitchingTabsAndCopyPasting(contributions, content, history, active, now_) ==
    LET length == Len(history) + 1
        bucket(i) == pastesInBetween(contributions, history, active, now_, i)
        patterns == SelectSeq(Upto(1, length - 1), LAMBDA i : Len(bucket(i)) > 0)
        maxScoreOfAPaste(p) ==
            LET b == bucket(patterns[p])
            IN  MaxSeq([n \in 1..Len(b) |->
                           RMul(contributionIncludesScore(content, b[n]), b[n].score)],
                       Zero)
        totalPatterns == Len(patterns)
    IN  IF length < 2 THEN Zero
        ELSE IF totalPatterns = 0 THEN Zero
        ELSE RDiv(SumSeq([p \in 1..totalPatterns |-> maxScoreOfAPaste(p)]),
                  Num(totalPatterns))

\* recalculateCopyRelatesToPaste(); recalculateAIScore(); recalculateUnmodifiedPastes();
\* recalculateKeepsSwitchingTabsAndCopyPasting(): the last one leaves its factor as
\* it was when it throws
recalculateAll(st, content, history, active, now_) ==
    [st EXCEPT
        !.COPY_RELATES_TO_PASTE =
            recalculateCopyRelatesToPaste(st.COPY_PASTE_CONTRIBUTIONS, content),
        !.CONTENT_CONTAINS_AI_SIGNATURES =
            recalculateAIScore(st.COPY_PASTE_CONTRIBUTIONS, content),
        !.UNMODIFIED_PASTES =
            recalculateUnmodifiedPastes(st.COPY_PASTE_CONTRIBUTIONS, content),
        !.KEEPS_SWITCHING_TABS_AND_COPY_PASTING =
            IF keepsSwitchingThrows(history, active)
            THEN @
            ELSE recalculateKeepsSwitchingTabsAndCopyPasting(
                     st.COPY_PASTE_CONTRIBUTIONS, content, history, active, now_)]

\* a variant of getLastAnalysis whose confidence is the sum of the raw factors
getLastAnalysis_unweighted(st, cfg) ==
    LET factorNames == {"COPY_RELATES_TO_PASTE", "CONTENT_CONTAINS_AI_SIGNATURES",
                        "UNMODIFIED_PASTES", "KEEPS_SWITCHING_TABS_AND_COPY_PASTING"}
    IN  [raw |-> [f \in factorNames |-> st[f]],
         weighted |-> [f \in factorNames |-> RMul(st[f], cfg.weights.reasons[f])],
         confidence |->
            RAdd(RAdd(RAdd(st["COPY_RELATES_TO_PASTE"], st["CONTENT_CONTAINS_AI_SIGNATURES"]),
                      st["UNMODIFIED_PASTES"]),
                 st["KEEPS_SWITCHING_TABS_AND_COPY_PASTING"])]

\* getLastAnalysis
getLastAnalysis(st, cfg) ==
    LET factorNames == {"COPY_RELATES_TO_PASTE", "CONTENT_CONTAINS_AI_SIGNATURES",
                        "UNMODIFIED_PASTES", "KEEPS_SWITCHING_TABS_AND_COPY_PASTING"}
        WEIGHTED == [f \in factorNames |-> RMul(st[f], cfg.weights.reasons[f])]
    IN  [raw |-> [f \in factorNames |-> st[f]],
         weighted |-> WEIGHTED,
         confidence |->
            RAdd(RAdd(RAdd(WEIGHTED["COPY_RELATES_TO_PASTE"],
                           WEIGHTED["CONTENT_CONTAINS_AI_SIGNATURES"]),
                      WEIGHTED["UNMODIFIED_PASTES"]),
                 WEIGHTED["KEEPS_SWITCHING_TABS_AND_COPY_PASTING"])]

----------------------------------------------------------------------------
(* The state: one Watchdog session, its handles and the page around them *)

\* the module state of the tokenizer: the own properties of the two cache objects
\* for the inputs followed (NULL: no own property), and the timers pending
CacheInputs == {TextAbCd, TextBlank, TextConstructor}
EmptyTokenizer ==
    [cache |-> [key \in CacheInputs |-> NULL],
     timeouts |-> [key \in CacheInputs |-> NULL],
     timers |-> {}]

VARIABLES
    now,        \* the clock read by new Date(), in milliseconds
    document,   \* [hidden, listeners]: document.hidden, and whether the session's
                \* visibilitychange and copy listeners are attached
    watchdog,   \* the fields of the Watchdog object
    handle,     \* handle[h]: the fields of the h-th WatchdogHandle created
    dom,        \* dom[h] = [value, listeners]: the content of the handle's element
                \* and whether its handlePaste/handleInput listeners are attached
    pending,    \* pending[h]: the asynchronous calls of the handle not yet settled
    lastCall,   \* the last operation or event handled, and how it ended
    tokenizer   \* [cache, timeouts, timers]: SIMPLE_TOKENIZER_CACHE,
                \* SIMPLE_TOKENIZER_CACHE_TIMEOUTS and the timers set by setTimeout
                \* that have not fired, followed for the calls of simpleTokenizer
                \* with the inputs CacheInputs; the handlers of the session are
                \* given the tokens simpleTokenizer computes for their texts

vars == <<now, document, watchdog, handle, dom, pending, lastCall, tokenizer>>

\* bounds of the model: the ticks of the clock, the contributions of a field, the
\* closed focus intervals, the copies recorded and the unsettled calls of a handle
MaxTicks == 1
MaxContributions == 2
MaxIntervals == 1
MaxCopies == 1
MaxPending == 1

\* the clock advances in steps of two minutes
TickMs == 2 * 60 * 1000

\* the model follows one handle: handles share nothing but the session, whose
\* stop, changeUser and beginMonitoring treat every handle of the registry alike
HandleIds == {1}

\* the elements a handle is created on
Textarea == [tagName |-> "textarea", type |-> "textarea", isContentEditable |-> FALSE]
EditableDiv == [tagName |-> "div", type |-> "", isContentEditable |-> TRUE]
Checkbox == [tagName |-> "input", type |-> "checkbox", isContentEditable |-> FALSE]
Elements == {Textarea, EditableDiv, Checkbox}

\* what a paste event carries: no clipboardData, or the text/plain data
ClipboardInputs ==
    {NULL, Some(<<>>), Some(TextShort), Some(TextAbCd), Some(TextAbCdFg), Some(TextAi)}

\* what a copy event carries as text/plain data (or as the selection)
CopyInputs == {<<>>, TextShort, TextAbCd}

\* the contents the user gives a field
Values == {<<>>, TextAbCdFg}

UserIds == {"u1", "u2"}

\* the configuration the caller of initialize gives: small size thresholds
CallerConfig == [paste_size_threshold |-> 3, copy_size_threshold |-> 3]

NewHandle(el) ==
    [exists |-> TRUE,
     element |-> el,
     isInitialized |-> FALSE,
     state |-> EmptyState,
     loadStateLoader |-> FALSE,
     doNotSetupEvents |-> FALSE]

NoHandle == [NewHandle(Checkbox) EXCEPT !.exists = FALSE]

Init ==
    /\ now = 0
    /\ tokenizer = EmptyTokenizer
    /\ document = [hidden |-> FALSE, listeners |-> FALSE]
    /\ watchdog =
          [config |-> DEFAULT_CONFIG,
           isMonitoring |-> FALSE,
           handles |-> <<>>,
           userId |-> NULL,
           tabFocusWatchInfoHistory |-> <<>>,
           activeTabFocusInfo |-> NULL,
           lastCopiedInfo |-> NULL,
           copyInfo10History |-> <<>>]
    /\ handle = [h \in HandleIds |-> NoHandle]
    /\ dom = [h \in HandleIds |-> [value |-> <<>>, listeners |-> FALSE]]
    /\ pending = [h \in HandleIds |-> <<>>]
    /\ lastCall = [op |-> "constructor", handle |-> 0, outcome |-> "returned"]

Call(op, h, outcome) == [op |-> op, handle |-> h, outcome |-> outcome]

\* a microtask (the continuation of an await on a settled promise) is queued: it
\* runs before any event is dispatched and before time is observed to pass
MicrotaskQueued == \E h \in HandleIds : \E k \in 1..Len(pending[h]) : pending[h][k].awaits = "microtask"

content(h) == getContentFromHTMLElement(handle[h].element, dom[h].value)

\* the handle's recalculations against the event log wd at time now
recalculated(st, h, wd) ==
    recalculateAll(st, content(h), wd.tabFocusWatchInfoHistory, wd.activeTabFocusInfo, now)

recalculationThrows(wd) ==
    keepsSwitchingThrows(wd.tabFocusWatchInfoHistory, wd.activeTabFocusInfo)

----------------------------------------------------------------------------
(* Watchdog: query, initialize, stop, changeUser, beginMonitoring *)

Registered(wd, h) == \E i \in 1..Len(wd.handles) : wd.handles[i] = h

\* a variant of stoppedHandle that clears the state of the field
stoppedHandle_clears(hr) == [hr EXCEPT !.isInitialized = FALSE, !.state = EmptyState]

\* WatchdogHandle.stop on the handle record hr and its element d
stoppedHandle(hr) == [hr EXCEPT !.isInitialized = FALSE]
stoppedDom(hr, d) == IF ~hr.doNotSetupEvents THEN [d EXCEPT !.listeners = FALSE] ELSE d

\* WatchdogHandle.restart of an initialized handle: removeEventListener and
\* addEventListener of both handlers
restartedDom(hr, d) == IF ~hr.doNotSetupEvents THEN [d EXCEPT !.listeners = TRUE] ELSE d

\* a variant of beginMonitoringWatchdog that keeps the copies recorded
beginMonitoringWatchdog_keepsCopies(wd) ==
    [wd EXCEPT
        !.isMonitoring = TRUE,
        !.activeTabFocusInfo = Some([focused_in |-> now, gap_ms |-> 0, is_focused |-> TRUE]),
        !.tabFocusWatchInfoHistory = <<>>]

\* Watchdog.beginMonitoring: the fields of the session, and the elements of the
\* handles hs it restarts
beginMonitoringWatchdog(wd) ==
    [wd EXCEPT
        !.isMonitoring = TRUE,
        !.activeTabFocusInfo = Some([focused_in |-> now, gap_ms |-> 0, is_focused |-> TRUE]),
        !.tabFocusWatchInfoHistory = <<>>,
        !.lastCopiedInfo = NULL,
        !.copyInfo10History = <<>>]

beginMonitoringDom(wd, hs, ds) ==
    [h \in HandleIds |->
        IF Registered(wd, h) /\ hs[h].isInitialized THEN restartedDom(hs[h], ds[h])
        ELSE ds[h]]

\* Watchdog.stop: handle.stop() of every handle of the registry
stopHandles(wd, hs) ==
    [h \in HandleIds |-> IF Registered(wd, h) THEN stoppedHandle(hs[h]) ELSE hs[h]]

stopDom(wd, hs, ds) ==
    [h \in HandleIds |-> IF Registered(wd, h) THEN stoppedDom(hs[h], ds[h]) ELSE ds[h]]

\* watchdog.query(element): a new handle on the element, added to the registry
Query(el) ==
    /\ \E h \in HandleIds :
          /\ ~handle[h].exists
          /\ \A g \in HandleIds : g < h => handle[g].exists
          /\ handle' = [handle EXCEPT ![h] = NewHandle(el)]
          /\ watchdog' = [watchdog EXCEPT !.handles = Append(@, h)]
          /\ lastCall' = Call("watchdog.query", h, "returned")
    /\ UNCHANGED <<now, document, dom, pending, tokenizer>>

\* watchdog.initialize(userId, config)
WatchdogInitialize(uid) ==
    LET wd == [watchdog EXCEPT !.config = MergeConfig(CallerConfig), !.userId = Some(uid)]
    IN  /\ IF ~watchdog.isMonitoring
           THEN /\ watchdog' = beginMonitoringWatchdog(wd)
                /\ document' = [document EXCEPT !.listeners = TRUE]
                /\ dom' = beginMonitoringDom(wd, handle, dom)
           ELSE /\ watchdog' = wd
                /\ UNCHANGED <<document, dom>>
        /\ lastCall' = Call("watchdog.initialize", 0, "returned")
        /\ UNCHANGED <<now, handle, pending, tokenizer>>

\* watchdog.stop()
WatchdogStop ==
    /\ watchdog' = [watchdog EXCEPT !.isMonitoring = FALSE]
    /\ handle' = stopHandles(watchdog, handle)
    /\ dom' = stopDom(watchdog, handle, dom)
    /\ document' = [document EXCEPT !.listeners = FALSE]
    /\ lastCall' = Call("watchdog.stop", 0, "returned")
    /\ UNCHANGED <<now, pending, tokenizer>>

\* watchdog.changeUser(userId): stop(), handle.loadState() of every handle of the
\* registry (the promises are not awaited), beginMonitoring().  loadState of a
\* handle with a state loader suspends at the loader; without one it runs its
\* recalculations at once, against the event log beginMonitoring is about to reset.
ChangeUser(uid) ==
    LET loads(h) == Registered(watchdog, h)
        wd == [watchdog EXCEPT !.userId = Some(uid), !.isMonitoring = FALSE]
    IN  \E stopped \in {stopHandles(watchdog, handle)} :
        \E reloaded \in {[h \in HandleIds |->
                             IF loads(h) /\ ~stopped[h].loadStateLoader
                             THEN [stopped[h] EXCEPT !.state = recalculated(@, h, watchdog)]
                             ELSE stopped[h]]} :
        /\ \A h \in HandleIds :
              loads(h) /\ handle[h].loadStateLoader => Len(pending[h]) < MaxPending
        /\ handle' = reloaded
        /\ pending' =
              [h \in HandleIds |->
                  IF loads(h) /\ handle[h].loadStateLoader
                  THEN Append(pending[h], [kind |-> "loadState", awaits |-> "loader"])
                  ELSE pending[h]]
        /\ watchdog' = beginMonitoringWatchdog(wd)
        /\ document' = [document EXCEPT !.listeners = TRUE]
        /\ dom' = beginMonitoringDom(wd, reloaded, stopDom(watchdog, handle, dom))
        /\ lastCall' = Call("watchdog.changeUser", 0, "returned")
        /\ UNCHANGED <<now, tokenizer>>

----------------------------------------------------------------------------
(* WatchdogHandle: setStateLoader, initialize, loadState, restart, stop, destroy *)

\* handle.setStateLoader(fn)
SetStateLoader(h) ==
    /\ handle[h].exists
    /\ ~handle[h].loadStateLoader
    /\ handle' = [handle EXCEPT ![h].loadStateLoader = TRUE]
    /\ lastCall' = Call("handle.setStateLoader", h, "returned")
    /\ UNCHANGED <<now, document, watchdog, dom, pending, tokenizer>>

\* a variant of sessionNotMonitoring that lets every call pass
sessionNotMonitoring_unchecked(wd) == FALSE

\* "if (!this.watchdog.isMonitoring) throw": the first statement of initialize
sessionNotMonitoring(wd) == ~wd.isMonitoring

\* handle.initialize(doNotSetupEvents), up to its first await.  With a state
\* loader it suspends in loadState at the loader; without one loadState runs its
\* recalculations, and the call suspends at "await this.loadState()".
HandleInitialize(h, doNotSetup) ==
    /\ handle[h].exists
    /\ Len(pending[h]) < MaxPending
    /\ IF sessionNotMonitoring(watchdog)
       THEN /\ lastCall' = Call("handle.initialize", h, "throws: watchdog is not initialized")
            /\ UNCHANGED <<handle, pending>>
       ELSE LET hr == [handle[h] EXCEPT !.isInitialized = TRUE,
                                        !.doNotSetupEvents = doNotSetup]
            IN  IF ~IsTextControl(hr.element)
                THEN /\ handle' = [handle EXCEPT ![h] = hr]
                     /\ lastCall' = Call("handle.initialize", h, "throws: not a valid input field")
                     /\ UNCHANGED pending
                ELSE IF hr.loadStateLoader
                THEN /\ handle' = [handle EXCEPT ![h] = hr]
                     /\ pending' = [pending EXCEPT ![h] =
                            Append(@, [kind |-> "initialize", awaits |-> "loader"])]
                     /\ lastCall' = Call("handle.initialize", h, "awaits the state loader")
                ELSE /\ handle' = [handle EXCEPT ![h] =
                            [hr EXCEPT !.state = recalculated(@, h, watchdog)]]
                     /\ IF recalculationThrows(watchdog)
                        THEN /\ lastCall' = Call("handle.initialize", h, "rejects: TypeError")
                             /\ UNCHANGED pending
                        ELSE /\ pending' = [pending EXCEPT ![h] =
                                    Append(@, [kind |-> "initialize", awaits |-> "microtask"])]
                             /\ lastCall' = Call("handle.initialize", h, "awaits loadState")
    /\ UNCHANGED <<now, document, watchdog, dom, tokenizer>>

RemoveAt(seq, k) == SubSeq(seq, 1, k - 1) \o SubSeq(seq, k + 1, Len(seq))

\* the rest of initialize after "await this.loadState()": this.restart()
resumeInitialize(h, k, hs) ==
    /\ pending' = [pending EXCEPT ![h] = RemoveAt(@, k)]
    /\ handle' = hs
    /\ IF ~hs[h].isInitialized
       THEN /\ lastCall' = Call("handle.initialize", h, "rejects: handle is not initialized")
            /\ UNCHANGED dom
       ELSE /\ dom' = [dom EXCEPT ![h] = restartedDom(hs[h], @)]
            /\ lastCall' = Call("handle.initialize", h, "resolved")

\* the microtask of an initialize without a state loader
InitializeResumes(h, k) ==
    /\ k \in 1..Len(pending[h])
    /\ pending[h][k] = [kind |-> "initialize", awaits |-> "microtask"]
    /\ resumeInitialize(h, k, handle)
    /\ UNCHANGED <<now, document, watchdog, tokenizer>>

\* the state loader's promise resolves: "this.state = await this.loadStateLoader()",
\* the recalculations of loadState and, in initialize, restart()
LoaderResolves(h, k, st) ==
    LET caller == IF pending[h][k].kind = "initialize" THEN "handle.initialize"
                  ELSE "handle.loadState"
    IN  /\ k \in 1..Len(pending[h])
        /\ pending[h][k].awaits = "loader"
        /\ ~MicrotaskQueued
        /\ \E loaded \in {[handle EXCEPT ![h].state = recalculated(st, h, watchdog)]} :
           IF recalculationThrows(watchdog)
           THEN /\ handle' = loaded
                /\ pending' = [pending EXCEPT ![h] = RemoveAt(@, k)]
                /\ lastCall' = Call(caller, h, "rejects: TypeError")
                /\ UNCHANGED dom
           ELSE IF pending[h][k].kind = "initialize"
           THEN resumeInitialize(h, k, loaded)
           ELSE /\ handle' = loaded
                /\ pending' = [pending EXCEPT ![h] = RemoveAt(@, k)]
                /\ lastCall' = Call(caller, h, "resolved")
                /\ UNCHANGED dom
        /\ UNCHANGED <<now, document, watchdog, tokenizer>>

\* the state loader's promise rejects: loadState rejects with it, and so does an
\* initialize awaiting it; nobody awaits the loadState of changeUser
LoaderRejects(h, k) ==
    /\ k \in 1..Len(pending[h])
    /\ pending[h][k].awaits = "loader"
    /\ ~MicrotaskQueued
    /\ pending' = [pending EXCEPT ![h] = RemoveAt(@, k)]
    /\ lastCall' = Call(IF pending[h][k].kind = "initialize" THEN "handle.initialize"
                        ELSE "handle.loadState", h, "rejects: state loader")
    /\ UNCHANGED <<now, document, watchdog, handle, dom, tokenizer>>

\* handle.restart()
HandleRestart(h) ==
    /\ handle[h].exists
    /\ IF ~handle[h].isInitialized
       THEN /\ lastCall' = Call("handle.restart", h, "throws: handle is not initialized")
            /\ UNCHANGED dom
       ELSE /\ dom' = [dom EXCEPT ![h] = restartedDom(handle[h], @)]
            /\ lastCall' = Call("handle.restart", h, "returned")
    /\ UNCHANGED <<now, document, watchdog, handle, pending, tokenizer>>

\* handle.stop()
HandleStop(h) ==
    /\ handle[h].exists
    /\ handle' = [handle EXCEPT ![h] = stoppedHandle(@)]
    /\ dom' = [dom EXCEPT ![h] = stoppedDom(handle[h], @)]
    /\ lastCall' = Call("handle.stop", h, "returned")
    /\ UNCHANGED <<now, document, watchdog, pending, tokenizer>>

\* handle.destroy()
HandleDestroy(h) ==
    /\ handle[h].exists
    /\ handle' = [handle EXCEPT ![h] = stoppedHandle(@)]
    /\ dom' = [dom EXCEPT ![h] = stoppedDom(handle[h], @)]
    /\ watchdog' = [watchdog EXCEPT !.handles = SelectSeq(@, LAMBDA g : g # h)]
    /\ lastCall' = Call("handle.destroy", h, "returned")
    /\ UNCHANGED <<now, document, pending, tokenizer>>

----------------------------------------------------------------------------
(* Events: paste and input on a field, copy and visibilitychange on the document *)

\* the handlers of the handle see the events of its element: through its
\* listeners or, for a handle initialized with doNotSetupEvents, because the
\* caller forwards them to handlePaste and handleInput once initialize has settled
Handles(h) ==
    \/ dom[h].listeners
    \/ (handle[h].doNotSetupEvents /\ handle[h].isInitialized /\ pending[h] = <<>>)

\* a variant of pasteOutcome without the check of paste_size_threshold
pasteOutcome_anySize(data, wd) ==
    IF data = NULL THEN "no clipboard data"
    ELSE IF data[1] = <<>> THEN "no text"
    ELSE IF IsDiscardedPaste(data[1], wd.lastCopiedInfo) THEN "discarded: similarity > 0.9"
    ELSE "recorded"

\* how handlePaste ends for the clipboard data: returned early or recorded
pasteOutcome(data, wd) ==
    IF data = NULL THEN "no clipboard data"
    ELSE IF data[1] = <<>> THEN "no text"
    ELSE IF Length(data[1]) < wd.config.paste_size_threshold THEN "below paste_size_threshold"
    ELSE IF IsDiscardedPaste(data[1], wd.lastCopiedInfo) THEN "discarded: similarity > 0.9"
    ELSE "recorded"

\* a variant of handlePaste that keeps only the new contribution
handlePaste_replaces(hr, data, wd) ==
    IF pasteOutcome(data, wd) = "recorded"
    THEN [hr EXCEPT !.state.COPY_PASTE_CONTRIBUTIONS =
            <<pasteContribution(data[1], wd.lastCopiedInfo, wd.activeTabFocusInfo,
                                wd.config, now)>>]
    ELSE hr

\* handle.handlePaste(e) with handlePastedText
handlePaste(hr, data, wd) ==
    IF pasteOutcome(data, wd) = "recorded"
    THEN [hr EXCEPT !.state.COPY_PASTE_CONTRIBUTIONS =
            Append(@, pasteContribution(data[1], wd.lastCopiedInfo, wd.activeTabFocusInfo,
                                        wd.config, now))]
    ELSE hr

\* handle.handleInput(e): the input event is dispatched after the element has taken
\* its new value, which getContentFromHTMLElement reads
handleInput(hr, value, wd) ==
    [hr EXCEPT !.state = recalculateAll(@, getContentFromHTMLElement(hr.element, value),
                                        wd.tabFocusWatchInfoHistory,
                                        wd.activeTabFocusInfo, now)]

\* a paste event on the element of handle h
PasteEvent(h, data) ==
    /\ handle[h].exists
    /\ Handles(h)
    /\ ~MicrotaskQueued
    /\ pasteOutcome(data, watchdog) = "recorded" =>
          Len(handle[h].state.COPY_PASTE_CONTRIBUTIONS) < MaxContributions
    /\ handle' = [handle EXCEPT ![h] = handlePaste(@, data, watchdog)]
    /\ lastCall' = Call("handle.handlePaste", h, pasteOutcome(data, watchdog))
    /\ UNCHANGED <<now, document, watchdog, dom, pending, tokenizer>>

\* the user changes the content of the element of handle h to v: an input event
InputEvent(h, v) ==
    /\ handle[h].exists
    /\ ~MicrotaskQueued
    /\ IsTextControl(handle[h].element) \/ v = dom[h].value
    /\ dom' = [dom EXCEPT ![h].value = v]
    /\ IF Handles(h)
       THEN /\ handle' = [handle EXCEPT ![h] = handleInput(@, v, watchdog)]
            /\ lastCall' = Call("handle.handleInput", h,
                                IF recalculationThrows(watchdog) THEN "throws: TypeError"
                                ELSE "returned")
       ELSE /\ lastCall' = Call("input", h, "not observed")
            /\ UNCHANGED handle
    /\ UNCHANGED <<now, document, watchdog, pending, tokenizer>>

\* a variant of handleCopy that never evicts an entry of the history
handleCopy_keepsAll(wd, finalContent) ==
    IF finalContent = <<>> THEN wd
    ELSE IF Length(finalContent) < wd.config.copy_size_threshold THEN wd
    ELSE LET info == [timestamp |-> now,
                      content |-> finalContent,
                      tokens |-> simpleTokenizer(finalContent),
                      size |-> Length(finalContent)]
         IN  [wd EXCEPT !.lastCopiedInfo = Some(info),
                        !.copyInfo10History = Append(wd.copyInfo10History, info)]

\* watchdog.handleCopy(event)
handleCopy(wd, finalContent) ==
    IF finalContent = <<>> THEN wd
    ELSE IF Length(finalContent) < wd.config.copy_size_threshold THEN wd
    ELSE LET info == [timestamp |-> now,
                      content |-> finalContent,
                      tokens |-> simpleTokenizer(finalContent),
                      size |-> Length(finalContent)]
             pushed == Append(wd.copyInfo10History, info)
         IN  [wd EXCEPT !.lastCopiedInfo = Some(info),
                        !.copyInfo10History =
                            IF Len(pushed) > 10 THEN Tail(pushed) ELSE pushed]

\* a copy event on the document, while the history holds fewer than limit copies
CopyEventWithin(finalContent, limit) ==
    /\ document.listeners
    /\ ~MicrotaskQueued
    /\ handleCopy(watchdog, finalContent) # watchdog =>
          Len(watchdog.copyInfo10History) < limit
    /\ watchdog' = handleCopy(watchdog, finalContent)
    /\ lastCall' = Call("watchdog.handleCopy", 0,
                        IF handleCopy(watchdog, finalContent) = watchdog THEN "ignored"
                        ELSE "recorded")
    /\ UNCHANGED <<now, document, handle, dom, pending, tokenizer>>

\* a copy event on the document
CopyEvent(finalContent) == CopyEventWithin(finalContent, MaxCopies)

\* a variant of handleVisibilityChange that opens every interval with gap_ms 0
handleVisibilityChange_noGap(wd, hidden) ==
    IF hidden /\ wd.activeTabFocusInfo # NULL
    THEN [wd EXCEPT !.tabFocusWatchInfoHistory =
                        Append(@, [focused_in |-> wd.activeTabFocusInfo[1].focused_in,
                                   gap_ms |-> wd.activeTabFocusInfo[1].gap_ms,
                                   focused_out |-> now,
                                   duration_ms |-> now - wd.activeTabFocusInfo[1].focused_in,
                                   is_focused |-> FALSE]),
                    !.activeTabFocusInfo = NULL]
    ELSE [wd EXCEPT !.activeTabFocusInfo =
             Some([focused_in |-> now, gap_ms |-> 0, is_focused |-> TRUE])]

\* watchdog.handleVisibilityChange() when document.hidden is hidden
handleVisibilityChange(wd, hidden) ==
    IF hidden /\ wd.activeTabFocusInfo # NULL
    THEN LET active == wd.activeTabFocusInfo[1]
             closed == [focused_in |-> active.focused_in,
                        gap_ms |-> active.gap_ms,
                        focused_out |-> now,
                        duration_ms |-> now - active.focused_in,
                        is_focused |-> FALSE]
         IN  [wd EXCEPT !.tabFocusWatchInfoHistory = Append(@, closed),
                        !.activeTabFocusInfo = NULL]
    ELSE LET history == wd.tabFocusWatchInfoHistory
             gap_ms == IF Len(history) > 0 THEN now - history[Len(history)].focused_out
                       ELSE 0
         IN  [wd EXCEPT !.activeTabFocusInfo =
                 Some([focused_in |-> now, gap_ms |-> gap_ms, is_focused |-> TRUE])]

\* the page is hidden or shown: a visibilitychange event on the document, while
\* the history holds at most limit intervals
VisibilityChangeWithin(limit) ==
    /\ ~MicrotaskQueued
    /\ document' = [document EXCEPT !.hidden = ~@]
    /\ IF document.listeners
       THEN /\ Len(handleVisibilityChange(watchdog, ~document.hidden).tabFocusWatchInfoHistory)
                  <= limit
            /\ watchdog' = handleVisibilityChange(watchdog, ~document.hidden)
            /\ lastCall' = Call("watchdog.handleVisibilityChange", 0, "returned")
       ELSE /\ lastCall' = Call("visibilitychange", 0, "not observed")
            /\ UNCHANGED watchdog
    /\ UNCHANGED <<now, handle, dom, pending, tokenizer>>

\* the page is hidden or shown: a visibilitychange event on the document
VisibilityChange == VisibilityChangeWithin(MaxIntervals)

\* time passes
Tick ==
    /\ ~MicrotaskQueued
    /\ now < MaxTicks * TickMs
    /\ now' = now + TickMs
    /\ UNCHANGED <<document, watchdog, handle, dom, pending, lastCall, tokenizer>>

----------------------------------------------------------------------------
(* The life of a session and its handle *)

\* what the state loader of the model resolves with: the state of a new field,
\* or the state saved for a field in which TextAbCdFg was pasted
StoredPaste ==
    pasteContribution(TextAbCdFg, NULL,
                      Some([focused_in |-> 0, gap_ms |-> 0, is_focused |-> TRUE]),
                      MergeConfig(CallerConfig), 0)

StoredState ==
    recalculateAll([EmptyState EXCEPT !.COPY_PASTE_CONTRIBUTIONS = <<StoredPaste>>],
                   TextAbCdFg, <<>>,
                   Some([focused_in |-> 0, gap_ms |-> 0, is_focused |-> TRUE]), 0)

StoredStates == {EmptyState, StoredState}

\* the events of the life of a session: one text to paste and to type
SessionClipboardInputs == {NULL, Some(TextAbCdFg)}

Next ==
    \/ \E el \in Elements : Query(el)
    \/ \E uid \in UserIds : WatchdogInitialize(uid)
    \/ WatchdogStop
    \/ \E uid \in UserIds : ChangeUser(uid)
    \/ \E h \in HandleIds : SetStateLoader(h)
    \/ \E h \in HandleIds : \E doNotSetup \in BOOLEAN : HandleInitialize(h, doNotSetup)
    \/ \E h \in HandleIds : \E k \in 1..MaxPending : InitializeResumes(h, k)
    \/ \E h \in HandleIds : \E k \in 1..MaxPending : \E st \in StoredStates :
          LoaderResolves(h, k, st)
    \/ \E h \in HandleIds : \E k \in 1..MaxPending : LoaderRejects(h, k)
    \/ \E h \in HandleIds : HandleRestart(h)
    \/ \E h \in HandleIds : HandleStop(h)
    \/ \E h \in HandleIds : HandleDestroy(h)
    \/ \E h \in HandleIds : \E data \in SessionClipboardInputs : PasteEvent(h, data)
    \/ \E h \in HandleIds : \E v \in Values : InputEvent(h, v)

Spec == Init /\ [][Next]_vars

----------------------------------------------------------------------------
(* The events of an active field *)

\* the session after watchdog.initialize("u1", CallerConfig), watchdog.query of a
\* textarea and the handle's initialize(), settled
InitActive ==
    /\ now = 0
    /\ tokenizer = EmptyTokenizer
    /\ document = [hidden |-> FALSE, listeners |-> TRUE]
    /\ watchdog =
          [config |-> MergeConfig(CallerConfig),
           isMonitoring |-> TRUE,
           handles |-> <<1>>,
           userId |-> Some("u1"),
           tabFocusWatchInfoHistory |-> <<>>,
           activeTabFocusInfo |-> Some([focused_in |-> 0, gap_ms |-> 0, is_focused |-> TRUE]),
           lastCopiedInfo |-> NULL,
           copyInfo10History |-> <<>>]
    /\ handle = [h \in HandleIds |-> [NewHandle(Textarea) EXCEPT !.isInitialized = TRUE]]
    /\ dom = [h \in HandleIds |-> [value |-> <<>>, listeners |-> TRUE]]
    /\ pending = [h \in HandleIds |-> <<>>]
    /\ lastCall = Call("handle.initialize", 1, "resolved")

NextEvents ==
    \/ Tick
    \/ \E h \in HandleIds : \E data \in ClipboardInputs : PasteEvent(h, data)
    \/ \E h \in HandleIds : \E v \in Values : InputEvent(h, v)
    \/ \E finalContent \in CopyInputs : CopyEvent(finalContent)
    \/ VisibilityChange

SpecEvents == InitActive /\ [][NextEvents]_vars

----------------------------------------------------------------------------
(* Stopping and starting the monitoring of a session that has an event log *)

NextMonitoring ==
    \/ Tick
    \/ \E h \in HandleIds : \E data \in SessionClipboardInputs : PasteEvent(h, data)
    \/ \E finalContent \in CopyInputs : CopyEvent(finalContent)
    \/ VisibilityChange
    \/ \E uid \in UserIds : WatchdogInitialize(uid)
    \/ WatchdogStop
    \/ \E uid \in UserIds : ChangeUser(uid)

SpecMonitoring == InitActive /\ [][NextMonitoring]_vars

----------------------------------------------------------------------------
(* Saving the state of a field and loading it again *)

\* handle.getState()
getState(h) == handle[h].state

\* the session of InitActive, whose handle has a state loader: the loader
\* resolves with the state getState() returned when the field was saved
InitReload ==
    /\ now = 0
    /\ tokenizer = EmptyTokenizer
    /\ document = [hidden |-> FALSE, listeners |-> TRUE]
    /\ watchdog =
          [config |-> MergeConfig(CallerConfig),
           isMonitoring |-> TRUE,
           handles |-> <<1>>,
           userId |-> Some("u1"),
           tabFocusWatchInfoHistory |-> <<>>,
           activeTabFocusInfo |-> Some([focused_in |-> 0, gap_ms |-> 0, is_focused |-> TRUE]),
           lastCopiedInfo |-> NULL,
           copyInfo10History |-> <<>>]
    /\ handle = [h \in HandleIds |->
                    [NewHandle(Textarea) EXCEPT !.isInitialized = TRUE,
                                                !.loadStateLoader = TRUE]]
    /\ dom = [h \in HandleIds |-> [value |-> <<>>, listeners |-> TRUE]]
    /\ pending = [h \in HandleIds |-> <<>>]
    /\ lastCall = Call("handle.initialize", 1, "resolved")

NextReload ==
    \/ Tick
    \/ \E h \in HandleIds : \E data \in SessionClipboardInputs : PasteEvent(h, data)
    \/ \E h \in HandleIds : \E v \in Values : InputEvent(h, v)
    \/ \E finalContent \in CopyInputs : CopyEvent(finalContent)
    \/ VisibilityChange
    \/ \E h \in HandleIds : HandleStop(h)
    \/ \E h \in HandleIds : \E doNotSetup \in BOOLEAN : HandleInitialize(h, doNotSetup)
    \/ \E h \in HandleIds : \E k \in 1..MaxPending : LoaderResolves(h, k, getState(h))

SpecReload == InitReload /\ [][NextReload]_vars

----------------------------------------------------------------------------
(* Focus intervals, pastes and recomputations across a change of user *)

NextSwitching ==
    \/ \E h \in HandleIds : \E data \in SessionClipboardInputs : PasteEvent(h, data)
    \/ \E h \in HandleIds : \E v \in Values : InputEvent(h, v)
    \/ \E finalContent \in CopyInputs : CopyEvent(finalContent)
    \/ VisibilityChange
    \/ \E uid \in UserIds : ChangeUser(uid)
    \/ \E h \in HandleIds : \E doNotSetup \in BOOLEAN : HandleInitialize(h, doNotSetup)
    \/ \E h \in HandleIds : \E k \in 1..MaxPending : InitializeResumes(h, k)

SpecSwitching == InitActive /\ [][NextSwitching]_vars

----------------------------------------------------------------------------
(* Copies and pastes over the minutes of the time windows *)

\* the clock of this specification runs to MaxClockMinutes, past the windows of
\* five minutes, in steps of 2 and of 2.9 minutes
MaxClockMinutes == 6
ElapseMs == {120000, 174000}

\* what is pasted and what is copied
PastedInputs == {Some(TextAbCd), Some(TextAbCdFg), Some(TextAi), Some(TextBlank)}
CopiedInputs == {TextAbCd, TextAbCdFg}

\* ms milliseconds pass
Elapse(ms) ==
    /\ ~MicrotaskQueued
    /\ now + ms <= MaxClockMinutes * 60 * 1000
    /\ now' = now + ms
    /\ UNCHANGED <<document, watchdog, handle, dom, pending, lastCall, tokenizer>>

NextPaste ==
    \/ \E ms \in ElapseMs : Elapse(ms)
    \/ \E h \in HandleIds : \E data \in PastedInputs : PasteEvent(h, data)
    \/ \E finalContent \in CopiedInputs : CopyEvent(finalContent)
    \/ VisibilityChange

SpecPaste == InitActive /\ [][NextPaste]_vars

----------------------------------------------------------------------------
(* The analysis of a field after copies, pastes, inputs and changes of visibility *)

\* handle.getLastAnalysis(): the caller receives the analysis
GetLastAnalysis(h) ==
    /\ handle[h].exists
    /\ lastCall' = [op |-> "handle.getLastAnalysis", handle |-> h, outcome |-> "returned",
                    analysis |-> getLastAnalysis(handle[h].state, watchdog.config)]
    /\ UNCHANGED <<now, document, watchdog, handle, dom, pending, tokenizer>>

NextAnalysis ==
    \/ \E h \in HandleIds : \E data \in PastedInputs : PasteEvent(h, data)
    \/ \E h \in HandleIds : \E v \in Values : InputEvent(h, v)
    \/ \E finalContent \in CopiedInputs : CopyEvent(finalContent)
    \/ VisibilityChange
    \/ \E h \in HandleIds : GetLastAnalysis(h)

SpecAnalysis == InitActive /\ [][NextAnalysis]_vars

----------------------------------------------------------------------------
(* The history of copies *)

\* the copies of this specification: more than the ten the history keeps
MaxCopyLog == 11

\* what is copied: nothing, a text below copy_size_threshold, and two texts
LoggedCopyInputs == CopyInputs \cup CopiedInputs

NextCopy ==
    \/ Tick
    \/ \E finalContent \in LoggedCopyInputs : CopyEventWithin(finalContent, MaxCopyLog)

SpecCopy == InitActive /\ [][NextCopy]_vars

----------------------------------------------------------------------------
(* The history of focus intervals *)

\* the closed intervals of this specification
MaxFocusLog == 3

NextFocus ==
    \/ \E ms \in ElapseMs : Elapse(ms)
    \/ VisibilityChangeWithin(MaxFocusLog)
    \/ WatchdogStop
    \/ \E uid \in UserIds : WatchdogInitialize(uid)

SpecFocus == InitActive /\ [][NextFocus]_vars

----------------------------------------------------------------------------
(* Input events on a field whose content may carry the pasted texts *)

InputTexts == {<<>>, TextAbCdFg, TextAi}

NextInput ==
    \/ \E h \in HandleIds : \E data \in PastedInputs : PasteEvent(h, data)
    \/ \E h \in HandleIds : \E v \in InputTexts : InputEvent(h, v)
    \/ \E finalContent \in CopiedInputs : CopyEvent(finalContent)
    \/ VisibilityChange

SpecInput == InitActive /\ [][NextInput]_vars

----------------------------------------------------------------------------
(* Pastes and input between tab switches: up to MaxPairLog closed intervals *)

MaxPairLog == 2

NextPairs ==
    \/ Tick
    \/ \E h \in HandleIds : \E data \in SessionClipboardInputs : PasteEvent(h, data)
    \/ \E h \in HandleIds : \E v \in Values : InputEvent(h, v)
    \/ \E finalContent \in CopyInputs : CopyEvent(finalContent)
    \/ VisibilityChangeWithin(MaxPairLog)

SpecPairs == InitActive /\ [][NextPairs]_vars

----------------------------------------------------------------------------
(* The events of a field that is stopped, restarted, destroyed and initialized again *)

LifecycleClipboardInputs == {NULL, Some(TextAbCd), Some(TextAbCdFg)}

NextLifecycle ==
    \/ \E h \in HandleIds : \E data \in LifecycleClipboardInputs : PasteEvent(h, data)
    \/ \E h \in HandleIds : \E v \in Values : InputEvent(h, v)
    \/ \E finalContent \in CopyInputs : CopyEvent(finalContent)
    \/ VisibilityChange
    \/ \E h \in HandleIds : HandleStop(h)
    \/ \E h \in HandleIds : HandleRestart(h)
    \/ \E h \in HandleIds : HandleDestroy(h)
    \/ \E h \in HandleIds : \E doNotSetup \in BOOLEAN : HandleInitialize(h, doNotSetup)
    \/ \E h \in HandleIds : \E k \in 1..MaxPending : InitializeResumes(h, k)

SpecLifecycle == InitActive /\ [][NextLifecycle]_vars

----------------------------------------------------------------------------
(* simpleTokenizer on texts of two words with punctuation *)

WordRunning == <<"R", "u", "n", "n", "i", "n", "g">>
WordQuickly == <<"q", "u", "i", "c", "k", "l", "y">>
WordRun == <<"r", "u", "n">>
Words == {WordRunning, WordQuickly, WordRun}
Separators == {<<" ">>, <<",", " ">>, <<",">>}
Endings == {<<>>, <<"!">>, <<".">>}

\* "Running, quickly!"
TextRunningQuickly == WordRunning \o <<",", " ">> \o WordQuickly \o <<"!">>

TokenizerTexts ==
    {first \o separator \o second \o ending :
        first \in Words, separator \in Separators, second \in Words, ending \in Endings}

\* a call of simpleTokenizer is about to be made, in a program that has
\* constructed its Watchdog
InitTokenizer ==
    /\ now = 0
    /\ tokenizer = EmptyTokenizer
    /\ document = [hidden |-> FALSE, listeners |-> FALSE]
    /\ watchdog =
          [config |-> DEFAULT_CONFIG,
           isMonitoring |-> FALSE,
           handles |-> <<>>,
           userId |-> NULL,
           tabFocusWatchInfoHistory |-> <<>>,
           activeTabFocusInfo |-> NULL,
           lastCopiedInfo |-> NULL,
           copyInfo10History |-> <<>>]
    /\ handle = [h \in HandleIds |-> NoHandle]
    /\ dom = [h \in HandleIds |-> [value |-> <<>>, listeners |-> FALSE]]
    /\ pending = [h \in HandleIds |-> <<>>]
    /\ \E input \in TokenizerTexts :
          lastCall = [op |-> "simpleTokenizer", handle |-> 0, outcome |-> "called",
                      input |-> input]

\* simpleTokenizer(input) returns
CallSimpleTokenizer ==
    /\ lastCall.op = "simpleTokenizer"
    /\ lastCall.outcome = "called"
    /\ lastCall' = [op |-> "simpleTokenizer", handle |-> 0, outcome |-> "returned",
                    input |-> lastCall.input,
                    result |-> simpleTokenizer(lastCall.input)]
    /\ UNCHANGED <<now, document, watchdog, handle, dom, pending, tokenizer>>

NextTokenizer == CallSimpleTokenizer

SpecTokenizer == InitTokenizer /\ [][NextTokenizer]_vars

----------------------------------------------------------------------------
(* normalizeToken on the raw tokens of up to MaxTokenLength letters *)

MaxTokenLength == 4
TokenLetters == {"s", "e", "n"}
RawTokens == UNION {[1..n -> TokenLetters] : n \in 1..MaxTokenLength}

\* a call of normalizeToken is about to be made by simpleTokenizer, in a program
\* that has constructed its Watchdog
InitNormalize ==
    /\ now = 0
    /\ tokenizer = EmptyTokenizer
    /\ document = [hidden |-> FALSE, listeners |-> FALSE]
    /\ watchdog =
          [config |-> DEFAULT_CONFIG,
           isMonitoring |-> FALSE,
           handles |-> <<>>,
           userId |-> NULL,
           tabFocusWatchInfoHistory |-> <<>>,
           activeTabFocusInfo |-> NULL,
           lastCopiedInfo |-> NULL,
           copyInfo10History |-> <<>>]
    /\ handle = [h \in HandleIds |-> NoHandle]
    /\ dom = [h \in HandleIds |-> [value |-> <<>>, listeners |-> FALSE]]
    /\ pending = [h \in HandleIds |-> <<>>]
    /\ \E token \in RawTokens :
          lastCall = [op |-> "normalizeToken", handle |-> 0, outcome |-> "called",
                      token |-> token]

\* normalizeToken(token) returns
CallNormalizeToken ==
    /\ lastCall.op = "normalizeToken"
    /\ lastCall.outcome = "called"
    /\ lastCall' = [op |-> "normalizeToken", handle |-> 0, outcome |-> "returned",
                    token |-> lastCall.token,
                    result |-> normalizeToken(lastCall.token)]
    /\ UNCHANGED <<now, document, watchdog, handle, dom, pending, tokenizer>>

NextNormalize == CallNormalizeToken

SpecNormalize == InitNormalize /\ [][NextNormalize]_vars

----------------------------------------------------------------------------
(* simpleTokenizer with its cache and the timers that empty it *)

\* the clock advances in steps of half the timeout, MaxCacheSteps times
MaxCacheSteps == 4
CacheStepMs == CACHE_TIMEOUT \div 2

\* simpleTokenizer(input) is called; the calls end early enough for the model to
\* see their timers fire
CachedTokenize(input) ==
    /\ now + CACHE_TIMEOUT <= MaxCacheSteps * CacheStepMs
    /\ tokenizer' = simpleTokenizerCall(tokenizer, input, now).tokenizer
    /\ lastCall' = [op |-> "simpleTokenizer", handle |-> 0, outcome |-> "returned",
                    input |-> input,
                    result |-> simpleTokenizerCall(tokenizer, input, now).result]
    /\ UNCHANGED <<now, document, watchdog, handle, dom, pending>>

\* a timer that is due fires
TimerFires(timer) ==
    /\ timer \in tokenizer.timers
    /\ timer.due <= now
    /\ tokenizer' = timerCallback(tokenizer, timer)
    /\ lastCall' = [op |-> "timer", handle |-> 0, outcome |-> "fired", input |-> timer.key]
    /\ UNCHANGED <<now, document, watchdog, handle, dom, pending>>

\* time passes up to the next step; the timers due have fired before
TimePasses ==
    /\ now + CacheStepMs <= MaxCacheSteps * CacheStepMs
    /\ \A timer \in tokenizer.timers : timer.due > now
    /\ now' = now + CacheStepMs
    /\ UNCHANGED <<document, watchdog, handle, dom, pending, lastCall, tokenizer>>

AllTimers ==
    [id : 1..(Cardinality(CacheInputs) + 1), key : CacheInputs,
     due : {n * CacheStepMs : n \in 0..(MaxCacheSteps + 2)}]

NextCache ==
    \/ \E input \in CacheInputs : CachedTokenize(input)
    \/ \E timer \in AllTimers : TimerFires(timer)
    \/ TimePasses

SpecCache == Init /\ [][NextCache]_vars

\* the event loop runs the timers that are due, and time does not stop
SpecCacheFair ==
    /\ SpecCache
    /\ WF_vars(TimePasses)
    /\ WF_vars(\E timer \in AllTimers : TimerFires(timer))

----------------------------------------------------------------------------
(* tokenIncludesScore on bounded token sequences *)

\* the token sequences: up to MaxTokens tokens, each one of two
MaxTokens == 3
Tokens == {<<"a">>, <<"b">>}
TokenSeqs == UNION {[1..n -> Tokens] : n \in 0..MaxTokens}
Thresholds == {Zero, Rat(7, 10), One}

\* a call of tokenIncludesScore is about to be made, in a program that has
\* constructed its Watchdog
InitIncludes ==
    /\ now = 0
    /\ tokenizer = EmptyTokenizer
    /\ document = [hidden |-> FALSE, listeners |-> FALSE]
    /\ watchdog =
          [config |-> DEFAULT_CONFIG,
           isMonitoring |-> FALSE,
           handles |-> <<>>,
           userId |-> NULL,
           tabFocusWatchInfoHistory |-> <<>>,
           activeTabFocusInfo |-> NULL,
           lastCopiedInfo |-> NULL,
           copyInfo10History |-> <<>>]
    /\ handle = [h \in HandleIds |-> NoHandle]
    /\ dom = [h \in HandleIds |-> [value |-> <<>>, listeners |-> FALSE]]
    /\ pending = [h \in HandleIds |-> <<>>]
    /\ \E container \in TokenSeqs : \E contained \in TokenSeqs :
       \E minimum_relevant \in Thresholds :
          lastCall = [op |-> "tokenIncludesScore", handle |-> 0, outcome |-> "called",
                      tokensContainer |-> container, tokensContained |-> contained,
                      minimum_relevant |-> minimum_relevant]

\* tokenIncludesScore(tokensContainer, tokensContained, minimum_relevant) returns
CallTokenIncludesScore ==
    /\ lastCall.op = "tokenIncludesScore"
    /\ lastCall.outcome = "called"
    /\ lastCall' = [op |-> "tokenIncludesScore", handle |-> 0, outcome |-> "returned",
                    tokensContainer |-> lastCall.tokensContainer,
                    tokensContained |-> lastCall.tokensContained,
                    minimum_relevant |-> lastCall.minimum_relevant,
                    result |-> tokenIncludesScore(lastCall.tokensContainer,
                                                  lastCall.tokensContained,
                                                  lastCall.minimum_relevant)]
    /\ UNCHANGED <<now, document, watchdog, handle, dom, pending, tokenizer>>

NextIncludes == CallTokenIncludesScore

SpecIncludes == InitIncludes /\ [][NextIncludes]_vars

----------------------------------------------------------------------------
(* Tab switches after the factors of a field were computed *)

\* what was pasted into the field
CountedTexts == {TextAbCd, TextAbCdFg}

\* the session of InitActive after the page was hidden and shown again, a copy of
\* TextAbCd, a paste of the text into the empty field and the input event that
\* followed it, all in the first millisecond: the factors have just been computed
InitCounted ==
    /\ now = 0
    /\ tokenizer = EmptyTokenizer
    /\ document = [hidden |-> FALSE, listeners |-> TRUE]
    /\ pending = [h \in HandleIds |-> <<>>]
    /\ lastCall = Call("handle.handleInput", 1, "returned")
    /\ \E text \in CountedTexts :
       \E copied \in {[timestamp |-> 0, content |-> TextAbCd,
                        tokens |-> simpleTokenizer(TextAbCd), size |-> Length(TextAbCd)]} :
       \E history \in {<< [focused_in |-> 0, gap_ms |-> 0, focused_out |-> 0,
                            duration_ms |-> 0, is_focused |-> FALSE] >>} :
       \E active \in {Some([focused_in |-> 0, gap_ms |-> 0, is_focused |-> TRUE])} :
          /\ watchdog =
                [config |-> MergeConfig(CallerConfig),
                 isMonitoring |-> TRUE,
                 handles |-> <<1>>,
                 userId |-> Some("u1"),
                 tabFocusWatchInfoHistory |-> history,
                 activeTabFocusInfo |-> active,
                 lastCopiedInfo |-> Some(copied),
                 copyInfo10History |-> <<copied>>]
          /\ dom = [h \in HandleIds |-> [value |-> text, listeners |-> TRUE]]
          /\ handle =
                [h \in HandleIds |->
                    [NewHandle(Textarea) EXCEPT
                        !.isInitialized = TRUE,
                        !.state = recalculateAll(
                            [EmptyState EXCEPT !.COPY_PASTE_CONTRIBUTIONS =
                                << pasteContribution(text, Some(copied), active,
                                                     MergeConfig(CallerConfig), 0) >>],
                            text, history, active, 0)]]

\* time passes, the page is hidden and shown, and input events leave the content
\* of the field as it is; nothing is pasted
NextCounted ==
    \/ \E ms \in ElapseMs : Elapse(ms)
    \/ VisibilityChangeWithin(MaxFocusLog)
    \/ \E h \in HandleIds : InputEvent(h, dom[h].value)

SpecCounted == InitCounted /\ [][NextCounted]_vars

----------------------------------------------------------------------------
(* findAISignatures on texts put together from up to MaxPieces pieces *)

MaxPieces == 4
PieceEmDash == <<"EMDASH">>
PieceEmoji == <<"EMOJI">>
PiecePhrase == <<"I", " ", "a", "m", " ", "a", "n", " ", "A", "I">>
PieceMarker == <<" ", "1", ".">>
PieceWord == <<"x">>
Pieces == {PieceEmDash, PieceEmoji, PiecePhrase, PieceMarker, PieceWord}

RECURSIVE JoinPieces(_)
JoinPieces(pieces) ==
    IF pieces = <<>> THEN <<>> ELSE Head(pieces) \o JoinPieces(Tail(pieces))

SignatureTexts == {JoinPieces(ps) : ps \in UNION {[1..n -> Pieces] : n \in 0..MaxPieces}}

\* the tresholds: the one the field handlers pass (1), a smaller and a larger one
SignatureTresholds == {Rat(1, 2), One, Num(2)}

\* a call of findAISignatures is about to be made, in a program that has
\* constructed its Watchdog
InitSignatures ==
    /\ now = 0
    /\ tokenizer = EmptyTokenizer
    /\ document = [hidden |-> FALSE, listeners |-> FALSE]
    /\ watchdog =
          [config |-> DEFAULT_CONFIG,
           isMonitoring |-> FALSE,
           handles |-> <<>>,
           userId |-> NULL,
           tabFocusWatchInfoHistory |-> <<>>,
           activeTabFocusInfo |-> NULL,
           lastCopiedInfo |-> NULL,
           copyInfo10History |-> <<>>]
    /\ handle = [h \in HandleIds |-> NoHandle]
    /\ dom = [h \in HandleIds |-> [value |-> <<>>, listeners |-> FALSE]]
    /\ pending = [h \in HandleIds |-> <<>>]
    /\ \E text \in SignatureTexts, treshold \in SignatureTresholds :
          lastCall = [op |-> "findAISignatures", handle |-> 0, outcome |-> "called",
                      text |-> text, treshold |-> treshold]

\* findAISignatures(text, treshold) returns
CallFindAISignatures ==
    /\ lastCall.op = "findAISignatures"
    /\ lastCall.outcome = "called"
    /\ lastCall' = [op |-> "findAISignatures", handle |-> 0, outcome |-> "returned",
                    text |-> lastCall.text, treshold |-> lastCall.treshold,
                    result |-> findAISignatures(lastCall.text, lastCall.treshold)]
    /\ UNCHANGED <<now, document, watchdog, handle, dom, pending, tokenizer>>

NextSignatures == CallFindAISignatures

SpecSignatures == InitSignatures /\ [][NextSignatures]_vars

----------------------------------------------------------------------------
(* Properties *)

\* the four aggregate factors of a field state
Factors(st) ==
    <<st.COPY_RELATES_TO_PASTE, st.CONTENT_CONTAINS_AI_SIGNATURES,
      st.UNMODIFIED_PASTES, st.KEEPS_SWITCHING_TABS_AND_COPY_PASTING>>

Contributions(h) == handle[h].state.COPY_PASTE_CONTRIBUTIONS

\* the field is active: marked initialized, with its paste and input listeners attached
Active(h) == handle[h].isInitialized /\ dom[h].listeners

\* a call of the handle awaits its state loader
LoaderPending(h) == \E k \in 1..Len(pending[h]) : pending[h][k].awaits = "loader"

\* a paste that qualifies: plain text of at least paste_size_threshold characters
\* whose similarity to the last copy is at most 0.9
Qualifies(data) ==
    /\ data # NULL
    /\ data[1] # <<>>
    /\ Length(data[1]) >= watchdog.config.paste_size_threshold
    /\ ~RGt(pasteSimilarity(data[1], watchdog.lastCopiedInfo), Rat(9, 10))

\* C1: after the paste handler has handled a qualifying paste, exactly one
\* contribution has been appended and the stored factors are the factors computed
\* from the new contribution list, the content of the field and the event log.
C1_PasteRecomputesFactors ==
    [][\A h \in HandleIds : \A data \in ClipboardInputs :
          PasteEvent(h, data) /\ Qualifies(data) =>
              /\ Len(handle'[h].state.COPY_PASTE_CONTRIBUTIONS) = Len(Contributions(h)) + 1
              /\ Factors(handle'[h].state) = Factors(recalculated(handle'[h].state, h, watchdog))
              /\ getLastAnalysis(handle'[h].state, watchdog.config) =
                    getLastAnalysis(recalculated(handle'[h].state, h, watchdog), watchdog.config)
      ]_vars

\* C2: a paste whose similarity to the tokens of the last copy is above 0.9, as
\* when its tokens are the tokens of the last copy, is discarded: no contribution
\* is appended and the four factors are unchanged.
C2_SimilarPasteDiscarded ==
    [][\A h \in HandleIds : \A data \in ClipboardInputs :
          (/\ PasteEvent(h, data)
           /\ data # NULL
           /\ RGt(pasteSimilarity(data[1], watchdog.lastCopiedInfo), Rat(9, 10))) =>
              /\ handle'[h].state.COPY_PASTE_CONTRIBUTIONS = Contributions(h)
              /\ Factors(handle'[h].state) = Factors(handle[h].state)
      ]_vars

\* a paste of the tokens of the last copy was discarded by a field that holds a
\* contribution
C2_Witness ==
    /\ lastCall = Call("handle.handlePaste", 1, "discarded: similarity > 0.9")
    /\ watchdog.lastCopiedInfo # NULL
    /\ Len(Contributions(1)) > 0

\* C3: a paste event without clipboard data, with empty plain text or with plain
\* text shorter than paste_size_threshold leaves the state of the field unchanged.
C3_UnqualifiedPasteIgnored ==
    [][\A h \in HandleIds : \A data \in ClipboardInputs :
          (/\ PasteEvent(h, data)
           /\ (\/ data = NULL
               \/ data[1] = <<>>
               \/ Length(data[1]) < watchdog.config.paste_size_threshold)) =>
              handle'[h].state = handle[h].state
      ]_vars

\* a paste shorter than paste_size_threshold reached a field that holds a contribution
C3_Witness ==
    /\ lastCall = Call("handle.handlePaste", 1, "below paste_size_threshold")
    /\ Len(Contributions(1)) > 0

\* C4: initialize of a handle while the session is not monitoring throws and
\* leaves the handle as it was: the initialized mark, the state of the field, the
\* listeners, and no call of the state loader is pending.
C4_InitializeNeedsMonitoring ==
    [][\A h \in HandleIds : \A doNotSetup \in BOOLEAN :
          HandleInitialize(h, doNotSetup) /\ ~watchdog.isMonitoring =>
              /\ lastCall' = Call("handle.initialize", h, "throws: watchdog is not initialized")
              /\ handle' = handle
              /\ dom' = dom
              /\ pending' = pending
      ]_vars

\* initialize threw on a text field with a state loader after the session was stopped
C4_Witness ==
    /\ lastCall = Call("handle.initialize", 1, "throws: watchdog is not initialized")
    /\ watchdog.userId # NULL
    /\ IsTextControl(handle[1].element)
    /\ handle[1].loadStateLoader

\* C5: after initialize has failed on an element that is no text control the
\* handle is not marked initialized (so that restart() throws and beginMonitoring
\* does not attach it).
C5_InvalidElementNotInitialized ==
    \A h \in HandleIds :
        lastCall = Call("handle.initialize", h, "throws: not a valid input field") =>
            ~handle[h].isInitialized

\* C6: after stop() of an active field on a text control, restart() attaches the
\* listeners again: it passes its check of the initialized mark.
C6_StopThenRestart ==
    [][\A h \in HandleIds :
          HandleStop(h) /\ Active(h) /\ IsTextControl(handle[h].element) =>
              /\ handle'[h].isInitialized
              /\ restartedDom(handle'[h], dom'[h]).listeners
      ]_vars

\* C7: stop() keeps the contributions and the factors of the field, and a stop()
\* that follows a stop() changes nothing.
C7_StopIdempotent ==
    [][\A h \in HandleIds :
          HandleStop(h) =>
              /\ handle'[h].state = handle[h].state
              /\ lastCall = Call("handle.stop", h, "returned") =>
                    handle' = handle /\ dom' = dom
      ]_vars

\* a field that holds a contribution and a factor above zero was stopped
C7_Witness ==
    /\ lastCall = Call("handle.stop", 1, "returned")
    /\ Len(Contributions(1)) > 0
    /\ RGt(handle[1].state.UNMODIFIED_PASTES, Zero)
    /\ ~Active(1)

\* C8: while a call of the handle awaits the state loader, the field is not marked
\* initialized and no paste or input event of the field is handled.
C8_NoEventsWhileLoading ==
    [][\A h \in HandleIds :
          LoaderPending(h) =>
              /\ ~handle[h].isInitialized
              /\ \A data \in ClipboardInputs : ~PasteEvent(h, data)
              /\ \A v \in Values : InputEvent(h, v) => lastCall' = Call("input", h, "not observed")
      ]_vars

\* C9: when the state loader rejects, the caller of initialize, or of changeUser,
\* gets the rejection and the field is not active: not marked initialized, no
\* listeners, the state of the field kept.
C9_LoaderRejectionLeavesInactive ==
    [][\A h \in HandleIds : \A k \in 1..MaxPending :
          LoaderRejects(h, k) =>
              /\ lastCall'.op = IF pending[h][k].kind = "initialize" THEN "handle.initialize"
                                ELSE "watchdog.changeUser"
              /\ ~handle'[h].isInitialized
              /\ ~dom'[h].listeners
              /\ handle'[h].state = handle[h].state
      ]_vars

\* C10: after changeUser(userId) the session is monitoring for userId and every
\* text field of the registry that was active before the call is active again.
C10_ChangeUserRestartsFields ==
    [][\A uid \in UserIds :
          ChangeUser(uid) =>
              /\ watchdog'.isMonitoring
              /\ watchdog'.userId = Some(uid)
              /\ \A h \in HandleIds :
                    Registered(watchdog, h) /\ IsTextControl(handle[h].element) /\ Active(h) =>
                        Active(h)'
      ]_vars

\* C11: every time monitoring starts (initialize of a session that is not
\* monitoring, or changeUser) the event log is reset: the history of focus
\* intervals is empty, one active interval is open with gap_ms = 0, there is no
\* last copy and the copy history is empty; the contributions of the field states
\* are the ones held before.
C11_MonitoringStartResetsLog ==
    [][(\/ ~watchdog.isMonitoring /\ \E uid \in UserIds : WatchdogInitialize(uid)
        \/ \E uid \in UserIds : ChangeUser(uid)) =>
           /\ watchdog'.isMonitoring
           /\ watchdog'.tabFocusWatchInfoHistory = <<>>
           /\ watchdog'.activeTabFocusInfo # NULL
           /\ watchdog'.activeTabFocusInfo[1].gap_ms = 0
           /\ watchdog'.activeTabFocusInfo[1].is_focused
           /\ watchdog'.lastCopiedInfo = NULL
           /\ watchdog'.copyInfo10History = <<>>
           /\ \A h \in HandleIds :
                 handle'[h].state.COPY_PASTE_CONTRIBUTIONS =
                     handle[h].state.COPY_PASTE_CONTRIBUTIONS
      ]_vars

\* changeUser has just reset the log of a session whose page is hidden, some time
\* after its start, and whose field holds a contribution
C11_Witness ==
    /\ lastCall.op = "watchdog.changeUser"
    /\ document.hidden
    /\ now > 0
    /\ Len(Contributions(1)) > 0
    /\ watchdog.lastCopiedInfo = NULL

\* C12: when the state loader of a handle that is being initialized resolves with
\* the state getState() returned for the field, whose content is the same, the
\* confidence getLastAnalysis() reports after the load is the confidence it
\* reported for the saved state.
C12_ReloadReproducesConfidence ==
    [][\A h \in HandleIds : \A k \in 1..MaxPending :
          LoaderResolves(h, k, getState(h)) /\ pending[h][k].kind = "initialize" =>
              getLastAnalysis(handle'[h].state, watchdog.config).confidence =
                  getLastAnalysis(getState(h), watchdog.config).confidence
      ]_vars

\* the focus intervals of the event log: the closed intervals of the history, and
\* the active interval if one is open
IntervalCount(wd) ==
    Len(wd.tabFocusWatchInfoHistory) + (IF wd.activeTabFocusInfo # NULL THEN 1 ELSE 0)

\* the handle's factors are recomputed in this step: by an input event it handles,
\* or by the loadState of initialize or changeUser on a handle without a loader
Recomputes(h) ==
    \/ Handles(h) /\ \E v \in Values : InputEvent(h, v)
    \/ /\ ~sessionNotMonitoring(watchdog)
       /\ IsTextControl(handle[h].element)
       /\ ~handle[h].loadStateLoader
       /\ \E doNotSetup \in BOOLEAN : HandleInitialize(h, doNotSetup)
    \/ /\ Registered(watchdog, h)
       /\ ~handle[h].loadStateLoader
       /\ \E uid \in UserIds : ChangeUser(uid)

\* C13: after a recomputation, KEEPS_SWITCHING_TABS_AND_COPY_PASTING is 0 whenever
\* the event log the recomputation reads holds fewer than two focus intervals
\* (closed ones plus the open one), whatever contributions the field holds.
C13_FewIntervalsNoSwitching ==
    [][\A h \in HandleIds :
          Recomputes(h) /\ IntervalCount(watchdog) < 2 =>
              handle'[h].state.KEEPS_SWITCHING_TABS_AND_COPY_PASTING = Zero
      ]_vars

\* the contribution the paste handler has appended last
LastContribution(h) == Contributions(h)[Len(Contributions(h))]

\* the step is a paste event on handle h that records a contribution
RecordsPaste(h) ==
    /\ \E data \in PastedInputs \cup ClipboardInputs : PasteEvent(h, data)
    /\ Len(Contributions(h)') = Len(Contributions(h)) + 1

RMax(a, b) == IF RGe(a, b) THEN a ELSE b

\* 1 - elapsed/window, for a window in minutes
Decay(elapsed, minutes) == RSub(One, RDiv(Num(elapsed), Num(minutes * 60 * 1000)))

\* C14: a paste recorded at time p, with the last copy at time c and the window
\* W = relevant_copy_event_minutes, has copyFactor
\* max(1 - (p - c)/W, min_copy_event_time_weight) when a copy exists and p - c < W,
\* and 0 when there is no copy or p - c >= W; with W = 5 minutes and floor 0.5 a
\* gap of 2 minutes gives 0.6 and a gap of 4.9 minutes gives 0.5.
C14_CopyFactor ==
    [][\A h \in HandleIds :
          RecordsPaste(h) =>
              (LET copy == watchdog.lastCopiedInfo
                   W == watchdog.config.settings.relevant_copy_event_minutes
                   floor == watchdog.config.weights.min_copy_event_time_weight
                   copyFactor == LastContribution(h)'.copyFactor
               IN  /\ copy = NULL => copyFactor = Zero
                   /\ copy # NULL /\ now - copy[1].timestamp >= W * 60 * 1000 =>
                          copyFactor = Zero
                   /\ copy # NULL /\ now - copy[1].timestamp < W * 60 * 1000 =>
                          copyFactor = RMax(Decay(now - copy[1].timestamp, W), floor)
                   /\ copy # NULL /\ W = 5 /\ floor = Rat(1, 2) =>
                          /\ now - copy[1].timestamp = 120000 => copyFactor = Rat(6, 10)
                          /\ now - copy[1].timestamp = 294000 => copyFactor = Rat(5, 10))
      ]_vars

\* a paste has just been recorded 4.9 minutes after the last copy, with the floor
\* as its copyFactor
C14_Witness ==
    /\ lastCall = Call("handle.handlePaste", 1, "recorded")
    /\ watchdog.lastCopiedInfo # NULL
    /\ LastContribution(1).timestamp = now
    /\ now - watchdog.lastCopiedInfo[1].timestamp = 294000
    /\ LastContribution(1).copyFactor = Rat(1, 2)

\* C15: a paste recorded at time p has its tabSwitchFactor computed against the
\* start f of the open focus interval and the window
\* W = relevant_tab_in_out_event_minutes:
\* max(1 - (p - f)/W, min_tab_event_time_weight) when an interval is open and
\* p - f < W, and 0 when no interval is open or p - f >= W.
C15_TabSwitchFactor ==
    [][\A h \in HandleIds :
          RecordsPaste(h) =>
              (LET active == watchdog.activeTabFocusInfo
                   W == watchdog.config.settings.relevant_tab_in_out_event_minutes
                   floor == watchdog.config.weights.min_tab_event_time_weight
                   tabSwitchFactor == LastContribution(h)'.tabSwitchFactor
               IN  /\ active = NULL => tabSwitchFactor = Zero
                   /\ active # NULL /\ now - active[1].focused_in >= W * 60 * 1000 =>
                          tabSwitchFactor = Zero
                   /\ active # NULL /\ now - active[1].focused_in < W * 60 * 1000 =>
                          tabSwitchFactor = RMax(Decay(now - active[1].focused_in, W), floor))
      ]_vars

\* a paste has just been recorded two minutes after the page was shown again
C15_Witness ==
    /\ lastCall = Call("handle.handlePaste", 1, "recorded")
    /\ watchdog.activeTabFocusInfo # NULL
    /\ watchdog.activeTabFocusInfo[1].focused_in > 0
    /\ LastContribution(1).timestamp = now
    /\ now - watchdog.activeTabFocusInfo[1].focused_in = 120000
    /\ LastContribution(1).tabSwitchFactor = Rat(6, 10)

\* the step is a paste event of the text data[1] on handle h that is recorded
RecordsPasteOf(h, data) ==
    /\ PasteEvent(h, data)
    /\ Len(Contributions(h)') = Len(Contributions(h)) + 1

\* the text shares a token with the last copy
SharesTokenWithCopy(text, lastCopied) ==
    /\ lastCopied # NULL
    /\ Range(simpleTokenizer(text)) \cap Range(lastCopied[1].tokens) # {}

C18_ScoreIsMaximum ==
    \A h \in HandleIds : \A i \in 1..Len(Contributions(h)) :
        LET c == Contributions(h)[i]
        IN  /\ RGe(c.score, Zero)
            /\ RLe(c.score, One)
            /\ c.score = RMax(c.aiScore, c.pasteScore)

\* C19: the containment of a contribution is the fraction of the distinct tokens
\* of the pasted text that are also tokens of the last copy,
\* |set(pasted) \cap set(lastCopy)| / |set(pasted)|, and 0 without a last copy.
C19_ContainmentOfPasteInCopy ==
    [][\A h \in HandleIds : \A data \in PastedInputs :
          RecordsPasteOf(h, data) =>
              (LET pasted == Range(simpleTokenizer(data[1]))
                   copy == watchdog.lastCopiedInfo
                   containment == LastContribution(h)'.containment
               IN  /\ copy = NULL => containment = Zero
                   /\ copy # NULL /\ pasted # {} =>
                          containment =
                              RDiv(Num(Cardinality(pasted \cap Range(copy[1].tokens))),
                                   Num(Cardinality(pasted))))
      ]_vars

\* C20: the similarity of two empty token sequences is 0, never NaN: a recorded
\* paste whose text has no token, with no last copy, has similarity 0.
C20_EmptySimilarityIsZero ==
    [][\A h \in HandleIds : \A data \in PastedInputs :
          RecordsPasteOf(h, data) /\ simpleTokenizer(data[1]) = <<>>
              /\ watchdog.lastCopiedInfo = NULL =>
                  /\ tokenSimilarityCompare(<<>>, <<>>) = Zero
                  /\ ~IsNaN(LastContribution(h)'.similarity)
                  /\ LastContribution(h)'.similarity = Zero
      ]_vars

\* the names of the four factors of a field state
FactorNames ==
    {"COPY_RELATES_TO_PASTE", "CONTENT_CONTAINS_AI_SIGNATURES",
     "UNMODIFIED_PASTES", "KEEPS_SWITCHING_TABS_AND_COPY_PASTING"}

\* C21: getLastAnalysis() returns raw = the four stored factors, weighted = each
\* factor times its reason weight, confidence = the sum of the four weighted
\* values, and leaves the field state as it is.
C21_AnalysisIsWeightedSum ==
    [][\A h \in HandleIds :
          GetLastAnalysis(h) =>
              (LET analysis == lastCall'.analysis
                   reasons == watchdog.config.weights.reasons
               IN  /\ \A f \in FactorNames :
                         /\ analysis.raw[f] = handle[h].state[f]
                         /\ analysis.weighted[f] = RMul(handle[h].state[f], reasons[f])
                   /\ analysis.confidence =
                         RAdd(RAdd(RAdd(analysis.weighted["COPY_RELATES_TO_PASTE"],
                                        analysis.weighted["CONTENT_CONTAINS_AI_SIGNATURES"]),
                                   analysis.weighted["UNMODIFIED_PASTES"]),
                              analysis.weighted["KEEPS_SWITCHING_TABS_AND_COPY_PASTING"])
                   /\ handle' = handle)
      ]_vars

\* getLastAnalysis() has just returned the analysis of a field with two factors
\* above 0
C21_Witness ==
    /\ lastCall.op = "handle.getLastAnalysis"
    /\ RGt(lastCall.analysis.raw["COPY_RELATES_TO_PASTE"], Zero)
    /\ RGt(lastCall.analysis.raw["UNMODIFIED_PASTES"], Zero)
    /\ RGt(lastCall.analysis.confidence, Zero)
    /\ RLt(lastCall.analysis.confidence, One)

\* a number between 0 and 1 (NaN is not)
InUnitInterval(a) == RGe(a, Zero) /\ RLe(a, One)

\* the reason weights are not negative and sum to at most 1, the time floors are
\* between 0 and 1
BoundedConfig(cfg) ==
    /\ \A f \in FactorNames : RGe(cfg.weights.reasons[f], Zero)
    /\ RLe(RAdd(RAdd(RAdd(cfg.weights.reasons["COPY_RELATES_TO_PASTE"],
                          cfg.weights.reasons["CONTENT_CONTAINS_AI_SIGNATURES"]),
                     cfg.weights.reasons["UNMODIFIED_PASTES"]),
                cfg.weights.reasons["KEEPS_SWITCHING_TABS_AND_COPY_PASTING"]), One)
    /\ InUnitInterval(cfg.weights.min_copy_event_time_weight)
    /\ InUnitInterval(cfg.weights.min_tab_event_time_weight)

\* C22: with reason weights that are not negative and sum to at most 1 and time
\* floors in [0,1], each of the four factors of a field and its confidence lie in
\* [0,1] in every state reached by copy, visibility, paste and input events.
C22_FactorsBounded ==
    BoundedConfig(watchdog.config) =>
        \A h \in HandleIds :
            /\ \A f \in FactorNames : InUnitInterval(handle[h].state[f])
            /\ InUnitInterval(getLastAnalysis(handle[h].state, watchdog.config).confidence)

\* C23: the copy history holds at most 10 entries in the order of arrival, the
\* oldest evicted first; its last element is the last copy, and there is no last
\* copy iff the history is empty; a copy with no content or with a size below
\* copy_size_threshold changes neither.
C23_CopyHistoryBounded ==
    [][\A finalContent \in LoggedCopyInputs :
          CopyEventWithin(finalContent, MaxCopyLog) =>
              (LET before == watchdog.copyInfo10History
                   after == watchdog'.copyInfo10History
               IN  IF finalContent = <<>>
                      \/ Length(finalContent) < watchdog.config.copy_size_threshold
                   THEN /\ after = before
                        /\ watchdog'.lastCopiedInfo = watchdog.lastCopiedInfo
                   ELSE /\ watchdog'.lastCopiedInfo # NULL
                        /\ watchdog'.lastCopiedInfo[1].content = finalContent
                        /\ watchdog'.lastCopiedInfo[1].timestamp = now
                        /\ Len(after) <= 10
                        /\ after[Len(after)] = watchdog'.lastCopiedInfo[1]
                        /\ SubSeq(after, 1, Len(after) - 1) =
                              IF Len(before) < 10 THEN before ELSE Tail(before))
          /\ (watchdog'.lastCopiedInfo = NULL <=> watchdog'.copyInfo10History = <<>>)
      ]_vars

\* a copy has just been recorded in a full history that holds both texts and
\* copies of both times
C23_Witness ==
    /\ lastCall = Call("watchdog.handleCopy", 0, "recorded")
    /\ Len(watchdog.copyInfo10History) = 10
    /\ watchdog.copyInfo10History[10] = watchdog.lastCopiedInfo[1]
    /\ watchdog.copyInfo10History[1].content # watchdog.copyInfo10History[10].content
    /\ watchdog.copyInfo10History[1].timestamp < watchdog.copyInfo10History[10].timestamp

\* C24: a visibility loss with an open interval closes it (focused_out set,
\* duration_ms = focused_out - focused_in, is_focused false), appends it to the
\* history and leaves no active interval; a visibility gain opens an interval
\* whose gap_ms is the time since focused_out of the last history entry, or 0
\* with an empty history.  Every history entry is closed and the history is
\* ordered in time without overlap.
C24_FocusIntervals ==
    [][VisibilityChangeWithin(MaxFocusLog) /\ document.listeners =>
          (LET history == watchdog.tabFocusWatchInfoHistory
               active == watchdog.activeTabFocusInfo
               after == watchdog'.tabFocusWatchInfoHistory
           IN  /\ document'.hidden /\ active # NULL =>
                     /\ watchdog'.activeTabFocusInfo = NULL
                     /\ after = Append(history,
                                       [focused_in |-> active[1].focused_in,
                                        gap_ms |-> active[1].gap_ms,
                                        focused_out |-> now,
                                        duration_ms |-> now - active[1].focused_in,
                                        is_focused |-> FALSE])
               /\ ~document'.hidden =>
                     /\ after = history
                     /\ watchdog'.activeTabFocusInfo =
                           Some([focused_in |-> now,
                                 gap_ms |-> IF history = <<>> THEN 0
                                            ELSE now - history[Len(history)].focused_out,
                                 is_focused |-> TRUE])
               /\ \A i \in 1..Len(after) :
                     /\ "focused_out" \in DOMAIN after[i]
                     /\ ~after[i].is_focused
                     /\ after[i].focused_in <= after[i].focused_out
                     /\ \A j \in 1..Len(after) :
                           i < j => after[i].focused_out <= after[j].focused_in)
      ]_vars

\* the page has just been shown again after two intervals were closed, some time
\* after the last one
C24_Witness ==
    /\ lastCall.op = "watchdog.handleVisibilityChange"
    /\ ~document.hidden
    /\ Len(watchdog.tabFocusWatchInfoHistory) = 2
    /\ watchdog.tabFocusWatchInfoHistory[2].duration_ms > 0
    /\ watchdog.activeTabFocusInfo # NULL
    /\ watchdog.activeTabFocusInfo[1].gap_ms > 0
    /\ watchdog.activeTabFocusInfo[1].focused_in = now

\* the sum of the values of a function over its domain
RECURSIVE SumOver(_)
SumOver(f) ==
    IF DOMAIN f = {} THEN Zero
    ELSE LET x == CHOOSE x \in DOMAIN f : TRUE
         IN  RAdd(f[x], SumOver([y \in DOMAIN f \ {x} |-> f[y]]))

\* the greatest of a set of numbers, 0 for the empty set
Best(S) == IF S = {} THEN Zero ELSE CHOOSE x \in S : \A y \in S : RGe(x, y)

\* the reference definition of includesScore, on sequences indexed from 1
ReferenceIncludesScore(container, contained, m) ==
    LET len == Len(contained)
        weight(k) == RSub(One, Rat(Abs(k), len))
        matches(i, j, k) ==
            /\ j + k \in 1..Len(container)
            /\ container[j + k] = contained[i + k]
        ratio(i, j) ==
            RDiv(SumOver([k \in {k \in (1 - i)..(len - i) : matches(i, j, k)} |-> weight(k)]),
                 SumOver([k \in (1 - i)..(len - i) |-> weight(k)]))
        best(i) == Best({ratio(i, j) : j \in {j \in 1..Len(container) :
                                                  container[j] = contained[i]}})
        mean == RDiv(SumOver([i \in 1..len |-> best(i)]), Num(len))
    IN  IF RGe(mean, m) THEN mean ELSE Zero

\* C25: includesScore(container, contained, m) is the reference definition: for
\* every index i of contained the best, over the j with container[j] = contained[i],
\* of the weights 1 - |k|/len(contained) of the offsets k where
\* container[j+k] = contained[i+k] (positions outside container never match)
\* divided by the sum of all the weights; the mean over i, returned when >= m
\* and replaced by 0 below m.
C25_IncludesScoreReference ==
    lastCall.op = "tokenIncludesScore" /\ lastCall.outcome = "returned" =>
        lastCall.result = ReferenceIncludesScore(lastCall.tokensContainer,
                                                 lastCall.tokensContained,
                                                 lastCall.minimum_relevant)

\* tokenIncludesScore has returned a score between 0.7 and 1 for three tokens
\* contained in part, the container being shorter than the offsets reach
C25_Witness ==
    /\ lastCall.op = "tokenIncludesScore"
    /\ lastCall.outcome = "returned"
    /\ Len(lastCall.tokensContained) = 3
    /\ Len(lastCall.tokensContainer) = 2
    /\ lastCall.minimum_relevant = Rat(7, 10)
    /\ RGt(lastCall.result, Zero)
    /\ RLt(lastCall.result, One)

\* includesScore(tokenize(content), tokenize(pasted), 0.7) by the reference definition
ReferenceIncludes(fieldText, pasted) ==
    ReferenceIncludesScore(simpleTokenizer(fieldText), simpleTokenizer(pasted), Rat(7, 10))

\* the mean over the contributions of includesScore times the field named by part,
\* 0 without contributions
MeanOver(contributions, fieldText, part) ==
    IF contributions = <<>> THEN Zero
    ELSE RDiv(SumOver([i \in DOMAIN contributions |->
                          RMul(ReferenceIncludes(fieldText, contributions[i].content),
                               contributions[i][part])]),
              Num(Len(contributions)))

\* C26: after every input event handled by a field, COPY_RELATES_TO_PASTE is the
\* mean over all contributions of includesScore(tokenize(content),
\* tokenize(contribution.content), 0.7) * contribution.score and
\* CONTENT_CONTAINS_AI_SIGNATURES the same mean with contribution.aiScore, both 0
\* without contributions: functions of the contribution list and the current
\* content alone.
C26_InputRecomputesMeans ==
    [][\A h \in HandleIds : \A v \in InputTexts :
          InputEvent(h, v) /\ Handles(h) =>
              (LET st == handle'[h].state
               IN  /\ st.COPY_RELATES_TO_PASTE =
                        MeanOver(st.COPY_PASTE_CONTRIBUTIONS, v, "score")
                   /\ st.CONTENT_CONTAINS_AI_SIGNATURES =
                        MeanOver(st.COPY_PASTE_CONTRIBUTIONS, v, "aiScore"))
      ]_vars

\* an input event has been handled on a field with two contributions, one of them
\* carrying AI signatures, and both factors are above 0 and their previous values
\* were replaced
C26_Witness ==
    \E h \in HandleIds :
        /\ lastCall = Call("handle.handleInput", h, "returned")
        /\ Len(Contributions(h)) = 2
        /\ dom[h].value = TextAi
        /\ RGt(handle[h].state.COPY_RELATES_TO_PASTE, Zero)
        /\ RGt(handle[h].state.CONTENT_CONTAINS_AI_SIGNATURES, Zero)
        /\ RLt(handle[h].state.CONTENT_CONTAINS_AI_SIGNATURES, One)

\* the working copy after the first n sentence fragments of a contribution were
\* looked up in the working copy w, each one found removed once
RECURSIVE FragmentsRemoved(_, _, _)
FragmentsRemoved(w, fragments, n) ==
    IF n = 0 THEN w
    ELSE LET before == FragmentsRemoved(w, fragments, n - 1)
         IN  IF Includes(before, fragments[n]) THEN RemoveFirst(before, fragments[n])
             ELSE before

\* the working copy of the text v after the first i contributions were examined
RECURSIVE WorkingCopy(_, _, _)
WorkingCopy(contributions, v, i) ==
    IF i = 0 THEN v
    ELSE LET before == WorkingCopy(contributions, v, i - 1)
             pasted == contributions[i].content
             fragments == splitSentences(pasted)
         IN  IF Includes(before, pasted) THEN RemoveFirst(before, pasted)
             ELSE FragmentsRemoved(before, fragments, Len(fragments))

\* what contribution i counts: 1 for a whole match, else the part of its sentence
\* fragments found in the working copy
CountsAs(contributions, v, i) ==
    LET before == WorkingCopy(contributions, v, i - 1)
        pasted == contributions[i].content
        fragments == splitSentences(pasted)
        found == {n \in 1..Len(fragments) :
                     Includes(FragmentsRemoved(before, fragments, n - 1), fragments[n])}
    IN  IF Includes(before, pasted) THEN One
        ELSE RDiv(Num(Cardinality(found)), Num(Len(fragments)))

\* the number of places where the text pasted occurs in the text v
Occurrences(v, pasted) ==
    Cardinality({at \in 1..(Len(v) - Len(pasted) + 1) :
                    SubSeq(v, at, at + Len(pasted) - 1) = pasted})

FocusIntervals(wd) ==
    wd.tabFocusWatchInfoHistory \o
        (IF wd.activeTabFocusInfo = NULL THEN <<>> ELSE <<wd.activeTabFocusInfo[1]>>)

\* the contributions of the bucket of the pair (first, second) at the time t
Bucket(contributions, first, second, t) ==
    LET from == IF "focused_out" \in DOMAIN first THEN first.focused_out
                ELSE first.focused_in
        to == IF "focused_out" \in DOMAIN second THEN second.focused_out ELSE t
    IN  {n \in DOMAIN contributions :
            contributions[n].timestamp >= from /\ contributions[n].timestamp <= to}

\* the factor by the walk over every consecutive pair of intervals
PairWalk(contributions, fieldText, intervals, t) ==
    LET bucket(p) == Bucket(contributions, intervals[p], intervals[p + 1], t)
        pairs == {p \in 1..(Len(intervals) - 1) : bucket(p) # {}}
        sample(p) == Best({RMul(ReferenceIncludes(fieldText, contributions[n].content),
                                contributions[n].score) : n \in bucket(p)})
    IN  IF pairs = {} THEN Zero
        ELSE RDiv(SumOver([p \in pairs |-> sample(p)]), Num(Cardinality(pairs)))

\* C28: KEEPS_SWITCHING_TABS_AND_COPY_PASTING is computed by walking every
\* consecutive pair of focus intervals (the history followed by the active
\* interval) from the pair of the first and the second interval: the bucket of a
\* pair holds the contributions with a timestamp in [first.focused_out or
\* focused_in, second.focused_out or now], a non-empty bucket yields the sample
\* max includesScore * score, and the factor is the mean of the samples, 0
\* without a sample.
C28_WalksEveryPair ==
    [][\A h \in HandleIds : \A v \in Values :
          InputEvent(h, v) /\ Handles(h) =>
              handle'[h].state.KEEPS_SWITCHING_TABS_AND_COPY_PASTING =
                  PairWalk(handle'[h].state.COPY_PASTE_CONTRIBUTIONS, v,
                           FocusIntervals(watchdog), now)
      ]_vars

\* C29: the contribution list of a field is append-only and its records are
\* immutable: a paste leaves the list as it is or appends one record at its end,
\* and an input event, stop, restart, destroy, a copy event and a visibility
\* event leave the list as it is.
C29_ContributionsAppendOnly ==
    [][\A h \in HandleIds :
          (LET old == Contributions(h)
               new == handle'[h].state.COPY_PASTE_CONTRIBUTIONS
           IN  /\ (\E data \in LifecycleClipboardInputs : PasteEvent(h, data)) =>
                      /\ Len(new) \in {Len(old), Len(old) + 1}
                      /\ SubSeq(new, 1, Len(old)) = old
               /\ (\/ \E v \in Values : InputEvent(h, v)
                   \/ HandleStop(h)
                   \/ HandleRestart(h)
                   \/ HandleDestroy(h)
                   \/ \E finalContent \in CopyInputs : CopyEvent(finalContent)
                   \/ VisibilityChange) => new = old)
      ]_vars

\* a field that holds two different contributions, the second one appended after
\* the first, has been destroyed
C29_Witness ==
    \E h \in HandleIds :
        /\ lastCall = Call("handle.destroy", h, "returned")
        /\ Len(Contributions(h)) = 2
        /\ Contributions(h)[1].content # Contributions(h)[2].content

PunctuationMarks == {".", ",", "!", "?", ";", ":", "(", ")"}

\* simpleTokenizer has returned the tokens of "Running, quickly!"
TokenizedRunningQuickly ==
    /\ lastCall.op = "simpleTokenizer"
    /\ lastCall.outcome = "returned"
    /\ lastCall.input = TextRunningQuickly

\* C30 as stated: tokenizing "Running, quickly!" yields ["runn", "quick", "!"].
C30_TokensWithoutComma ==
    TokenizedRunningQuickly =>
        lastCall.result = << <<"r", "u", "n", "n">>, <<"q", "u", "i", "c", "k">>, <<"!">> >>

\* C30, amended: tokenizing "Running, quickly!" yields ["runn", ",", "quick", "!"],
\* the comma being a solo token like every punctuation mark: words lower-cased
\* with one suffix stripped each, and for every text the punctuation tokens of
\* the result are the punctuation marks of the input in their order.
C30_TokensOfRunningQuickly ==
    /\ TokenizedRunningQuickly =>
          lastCall.result =
              << <<"r", "u", "n", "n">>, <<",">>, <<"q", "u", "i", "c", "k">>, <<"!">> >>
    /\ lastCall.op = "simpleTokenizer" /\ lastCall.outcome = "returned" =>
          SelectSeq(lastCall.result,
                    LAMBDA t : Len(t) = 1 /\ t[1] \in PunctuationMarks) =
              [n \in 1..Len(SelectSeq(lastCall.input, LAMBDA c : c \in PunctuationMarks)) |->
                  <<SelectSeq(lastCall.input, LAMBDA c : c \in PunctuationMarks)[n]>>]

\* simpleTokenizer has returned four tokens for "Running, quickly!"
C30_Witness ==
    /\ TokenizedRunningQuickly
    /\ Len(lastCall.result) = 4

\* the token without the first prefix of the list it starts with
WithoutPrefix(token) ==
    LET hits == {i \in 1..Len(commonPrefixes) : StartsWith(token, commonPrefixes[i])}
        first == CHOOSE i \in hits : \A j \in hits : i <= j
    IN  IF hits = {} THEN token
        ELSE SubSeq(token, Len(commonPrefixes[first]) + 1, Len(token))

\* the token without the first suffix of the list it ends with, cut from its back
WithoutTrailingSuffix(token) ==
    LET hits == {i \in 1..Len(commonSuffixes) : EndsWith(token, commonSuffixes[i])}
        first == CHOOSE i \in hits : \A j \in hits : i <= j
    IN  IF hits = {} THEN token
        ELSE SubSeq(token, 1, Len(token) - Len(commonSuffixes[first]))

\* C31: normalization strips at most one suffix, the first entry of the suffix
\* list the token ends with, from the back of the token only: the characters
\* before the trailing suffix are kept in place (lower-cased and folded), also
\* when the letters of the suffix occur earlier in the token and whether or not
\* a prefix was stripped.
C31_SuffixStrippedFromBack ==
    lastCall.op = "normalizeToken" /\ lastCall.outcome = "returned" =>
        lastCall.result =
            (LET kept == ToLowerCase(WithoutTrailingSuffix(WithoutPrefix(lastCall.token)))
             IN  [i \in 1..Len(kept) |-> accentsMap(kept[i])])

\* C32: the cache of the tokenizer is transparent: whatever calls and expirations
\* came before, simpleTokenizer(input) returns the token sequence the uncached
\* computation gives for the input.
C32_CacheTransparent ==
    [][\A input \in CacheInputs :
          CachedTokenize(input) => lastCall'.result = [array |-> tokenizeUncached(input)]
      ]_vars

\* the evictions pending for a key
PendingEvictions(key) == {timer \in tokenizer.timers : timer.key = key}

PlacesOf(text, piece) ==
    {at \in 1..(Len(text) - Len(piece) + 1) :
        ToLowerCase(SubSeq(text, at, at + Len(piece) - 1)) = ToLowerCase(piece)}

\* 0.3 * em dashes + 0.5 * emojis + 1.0 * self-reference phrases
\* + 0.05 * numbered-list markers, of a text put together from Pieces
WeightedSignatures(text) ==
    LET count(piece) == Num(Cardinality(PlacesOf(text, piece)))
    IN  RAdd(RAdd(RMul(Rat(3, 10), count(PieceEmDash)),
                  RMul(Rat(1, 2), count(PieceEmoji))),
             RAdd(count(PiecePhrase),
                  RMul(Rat(1, 20), count(PieceMarker))))

FactorsDefined(st) ==
    \A f \in {"COPY_RELATES_TO_PASTE", "CONTENT_CONTAINS_AI_SIGNATURES",
              "UNMODIFIED_PASTES", "KEEPS_SWITCHING_TABS_AND_COPY_PASTING"} :
        ~IsNaN(st[f]) /\ IsFinite(st[f])

\* C35: recomputing the factors, in an input event or at the end of loadState,
\* completes without a runtime failure and leaves a defined number in each of the
\* four factors, in every reachable state of the session and the field, also while
\* the page is hidden with no interval active and a non-empty focus history.
C35_RecomputationCompletes ==
    [][\A h \in HandleIds :
          /\ \A v \in Values :
                (InputEvent(h, v) /\ Handles(h)) =>
                    /\ lastCall'.outcome = "returned"
                    /\ FactorsDefined(handle'[h].state)
          /\ \A k \in 1..MaxPending :
                LoaderResolves(h, k, getState(h)) =>
                    /\ lastCall'.outcome # "rejects: TypeError"
                    /\ FactorsDefined(handle'[h].state)
      ]_vars

\* C36: after any visibility events since monitoring started, whatever the
\* visibility of the page was at that moment, no focus interval is lost and none
\* is open while the page is hidden: an active interval exists exactly while the
\* page is visible, and an interval that stops being the active one is the last
\* closed entry of the history.
C36_NoIntervalLost ==
    /\ [](watchdog.isMonitoring =>
             ((watchdog.activeTabFocusInfo # NULL) <=> ~document.hidden))
    /\ [][(/\ VisibilityChange
           /\ watchdog.isMonitoring
           /\ watchdog.activeTabFocusInfo # NULL
           /\ watchdog'.activeTabFocusInfo # watchdog.activeTabFocusInfo) =>
              /\ Len(watchdog'.tabFocusWatchInfoHistory)
                     = Len(watchdog.tabFocusWatchInfoHistory) + 1
              /\ watchdog'.tabFocusWatchInfoHistory[
                     Len(watchdog'.tabFocusWatchInfoHistory)].focused_in
                     = watchdog.activeTabFocusInfo[1].focused_in
      ]_vars

\* the contributions of the field of h that the walk over the focus intervals
\* puts in a bucket
CountedInBucket(h) ==
    LET intervals == FocusIntervals(watchdog)
    IN  UNION {Bucket(handle[h].state.COPY_PASTE_CONTRIBUTIONS, intervals[p],
                      IF p < Len(intervals) THEN intervals[p + 1] ELSE [focused_in |-> now],
                      now) : p \in 2..Len(intervals)}

NothingVerbatim(contributions, v) ==
    \A i \in DOMAIN contributions :
        /\ ~Includes(v, contributions[i].content)
        /\ \A n \in DOMAIN splitSentences(contributions[i].content) :
               ~Includes(v, splitSentences(contributions[i].content)[n])

\* C38: UNMODIFIED_PASTES is 0 whenever none of the contributions of the field and
\* no sentence fragment of any of them occurs verbatim in the content of the
\* field, also when the content is empty.
C38_NothingVerbatimGivesZero ==
    [][\A h \in HandleIds : \A v \in InputTexts :
          (/\ InputEvent(h, v)
           /\ Handles(h)
           /\ NothingVerbatim(handle[h].state.COPY_PASTE_CONTRIBUTIONS, v)) =>
              handle'[h].state.UNMODIFIED_PASTES = Zero
      ]_vars

C40_StopLeavesNoHandleActive ==
    [][WatchdogStop => \A h \in HandleIds : handle'[h].exists => ~Active(h)']_vars

=============================================================================
